---- MODULE Spec2Model ----
(***************************************************************************)
(* Receipt input application: column codec, column mapping configuration,  *)
(* row builder and receipt text interpreter.                                *)
(*                                                                         *)
(* Strings are sequences of one-character strings.  The one non-ASCII      *)
(* letter of the model, LATIN CAPITAL LETTER A WITH GRAVE (U+00C0), is     *)
(* written "A_grave".                                                      *)
(***************************************************************************)
EXTENDS Integers, Sequences, FiniteSets, TLC

VARIABLES pc, op, inp, out, uploads, preferences, worksheet, local, calls, history

vars == <<pc, op, inp, out, uploads, preferences, worksheet, local, calls, history>>

\* the files of shared/uploads, the content of shared/user_preferences.json,
\* the rows of the worksheet, the local variables of the running handlers,
\* the log of the calls made, and what each session was last granted
server == <<uploads, preferences, worksheet, local, calls, history>>

(***************************************************************************)
(* Characters                                                              *)
(***************************************************************************)
UPPER == <<"A","B","C","D","E","F","G","H","I","J","K","L","M",
           "N","O","P","Q","R","S","T","U","V","W","X","Y","Z">>

LOWER == <<"a","b","c","d","e","f","g","h","i","j","k","l","m",
           "n","o","p","q","r","s","t","u","v","w","x","y","z">>

DIGITS == <<"0","1","2","3","4","5","6","7","8","9">>

A_GRAVE == "A_grave"

Range(s) == {s[i] : i \in 1..Len(s)}

Pos(s, c) == CHOOSE i \in 1..Len(s) : s[i] = c

IsAsciiUpper(c) == c \in Range(UPPER)

IsAsciiLower(c) == c \in Range(LOWER)

IsDigit(c) == c \in Range(DIGITS)

IsSpace(c) == c \in {" ", "\n", "\t"}

\* str.isupper / str.isalpha work on Unicode categories, not on A-Z
IsUpperChar(c) == IsAsciiUpper(c) \/ c = A_GRAVE

IsAlphaChar(c) == IsAsciiUpper(c) \/ IsAsciiLower(c) \/ c = A_GRAVE

ord(c) ==
    IF IsAsciiUpper(c) THEN 64 + Pos(UPPER, c)
    ELSE IF IsAsciiLower(c) THEN 96 + Pos(LOWER, c)
    ELSE IF IsDigit(c) THEN 47 + Pos(DIGITS, c)
    ELSE IF c = "\n" THEN 10
    ELSE IF c = "\t" THEN 9
    ELSE IF c = " " THEN 32
    ELSE IF c = A_GRAVE THEN 192
    ELSE 63

chr(n) == UPPER[n - 64]

\* str.isupper(): at least one cased character and no lower-case one
isupper(s) ==
    /\ \E i \in 1..Len(s) : IsUpperChar(s[i])
    /\ \A i \in 1..Len(s) : ~IsAsciiLower(s[i])

\* str.isalpha(): non-empty and letters only
isalpha(s) ==
    /\ Len(s) > 0
    /\ \A i \in 1..Len(s) : IsAlphaChar(s[i])

\* not s or not s.strip()
IsBlank(s) == \A i \in 1..Len(s) : IsSpace(s[i])

(***************************************************************************)
(* ColumnValidator                                                         *)
(***************************************************************************)
MAX_COLUMN_INDEX == 701

\* re.compile(r"^[A-Z]{1,2}$").match: "$" also matches just before a
\* line break that ends the string
COLUMN_PATTERN_match(s) ==
    LET body == IF Len(s) > 0 /\ s[Len(s)] = "\n" THEN SubSeq(s, 1, Len(s) - 1) ELSE s
        plain(t) == Len(t) \in {1, 2} /\ \A i \in 1..Len(t) : IsAsciiUpper(t[i])
    IN  plain(s) \/ plain(body)

to_index_off_by_one(column_ref) ==
    IF Len(column_ref) = 1
    THEN ord(column_ref[1]) - ord("A")
    ELSE (ord(column_ref[1]) - ord("A")) * 26 + (ord(column_ref[2]) - ord("A"))

to_index(column_ref) ==
    IF Len(column_ref) = 1
    THEN ord(column_ref[1]) - ord("A")
    ELSE LET first  == ord(column_ref[1]) - ord("A") + 1
             second == ord(column_ref[2]) - ord("A")
         IN  first * 26 + second

from_index_no_carry(index) ==
    IF index < 26
    THEN <<chr(ord("A") + index)>>
    ELSE <<chr(ord("A") + (index \div 26)), chr(ord("A") + (index % 26))>>

from_index(index) ==
    IF index < 26
    THEN <<chr(ord("A") + index)>>
    ELSE LET first_index  == (index \div 26) - 1
             second_index == index % 26
         IN  <<chr(ord("A") + first_index), chr(ord("A") + second_index)>>

Valid == [ok |-> TRUE, error |-> "None"]

Invalid(code) == [ok |-> FALSE, error |-> code]

validate(column_ref) ==
    IF Len(column_ref) > 2 /\ isupper(column_ref) /\ isalpha(column_ref)
    THEN Invalid("COLUMN_OUT_OF_RANGE")
    ELSE IF ~COLUMN_PATTERN_match(column_ref)
    THEN Invalid("INVALID_COLUMN_FORMAT")
    ELSE IF to_index(column_ref) > MAX_COLUMN_INDEX
    THEN Invalid("COLUMN_OUT_OF_RANGE")
    ELSE Valid

(***************************************************************************)
(* ColumnMappingConfiguration                                              *)
(***************************************************************************)
ColumnMappingConfiguration(d, s, p) ==
    [date_column |-> d, description_column |-> s, price_column |-> p]

ConfigError(field, error) == [ok |-> FALSE, field |-> field, error |-> error]

ConfigValid == [ok |-> TRUE, field |-> "None", error |-> "None"]

config_validate_field_by_field(self) ==
    IF IsBlank(self.date_column) THEN ConfigError("date_column", "is required")
    ELSE IF ~validate(self.date_column).ok
    THEN ConfigError("date_column", validate(self.date_column).error)
    ELSE IF IsBlank(self.description_column) THEN ConfigError("description_column", "is required")
    ELSE IF ~validate(self.description_column).ok
    THEN ConfigError("description_column", validate(self.description_column).error)
    ELSE IF IsBlank(self.price_column) THEN ConfigError("price_column", "is required")
    ELSE IF ~validate(self.price_column).ok
    THEN ConfigError("price_column", validate(self.price_column).error)
    ELSE ConfigValid

config_validate(self) ==
    IF IsBlank(self.date_column) THEN ConfigError("date_column", "is required")
    ELSE IF IsBlank(self.description_column) THEN ConfigError("description_column", "is required")
    ELSE IF IsBlank(self.price_column) THEN ConfigError("price_column", "is required")
    ELSE IF ~validate(self.date_column).ok
    THEN ConfigError("date_column", validate(self.date_column).error)
    ELSE IF ~validate(self.description_column).ok
    THEN ConfigError("description_column", validate(self.description_column).error)
    ELSE IF ~validate(self.price_column).ok
    THEN ConfigError("price_column", validate(self.price_column).error)
    ELSE ConfigValid

get_column_index(column_ref) == to_index(column_ref)

(***************************************************************************)
(* Values handed to the row builder                                        *)
(***************************************************************************)
RECURSIVE IntToStr(_)
IntToStr(n) == IF n < 10 THEN <<DIGITS[n + 1]>>
               ELSE IntToStr(n \div 10) \o <<DIGITS[(n % 10) + 1]>>

RECURSIVE ZeroPad(_, _)
ZeroPad(s, width) == IF Len(s) >= width THEN s ELSE ZeroPad(<<"0">> \o s, width)

\* date.strftime("%Y-%m-%d")
strftime_Ymd(d) ==
    ZeroPad(IntToStr(d.year), 4) \o <<"-">> \o ZeroPad(IntToStr(d.month), 2)
        \o <<"-">> \o ZeroPad(IntToStr(d.day), 2)

(***************************************************************************)
(* decimal.Decimal: the digits before and after the decimal point.  The    *)
(* amounts of a receipt run to ten digits, so they are compared digit by   *)
(* digit.                                                                  *)
(***************************************************************************)
RECURSIVE StripLeadingZeros(_)
StripLeadingZeros(s) ==
    IF Len(s) > 0 /\ s[1] = "0" THEN StripLeadingZeros(Tail(s)) ELSE s

RECURSIVE StripTrailingZeros(_)
StripTrailingZeros(s) ==
    IF Len(s) > 0 /\ s[Len(s)] = "0" THEN StripTrailingZeros(SubSeq(s, 1, Len(s) - 1)) ELSE s

DigitsLess(a, b) ==
    \E i \in 1..Len(a) :
        /\ i <= Len(b)
        /\ Pos(DIGITS, a[i]) < Pos(DIGITS, b[i])
        /\ \A j \in 1..(i - 1) : a[j] = b[j]

DecimalLess(x, y) ==
    LET xi == StripLeadingZeros(x.ip)
        yi == StripLeadingZeros(y.ip)
        xf == StripTrailingZeros(x.fp)
        yf == StripTrailingZeros(y.fp)
    IN  \/ Len(xi) < Len(yi)
        \/ Len(xi) = Len(yi) /\ DigitsLess(xi, yi)
        \/ /\ xi = yi
           /\ \/ DigitsLess(xf, yf)
              \/ Len(xf) < Len(yf) /\ xf = SubSeq(yf, 1, Len(xf))

DecimalEqual(x, y) ==
    /\ StripLeadingZeros(x.ip) = StripLeadingZeros(y.ip)
    /\ StripTrailingZeros(x.fp) = StripTrailingZeros(y.fp)

\* str(float(d)): the shortest decimal that reads back as the same float,
\* i.e. no trailing zeros and at least one fraction digit (for the amounts
\* here: below 10^16, at most 15 significant digits)
str_float(d) ==
    LET whole == StripLeadingZeros(d.ip)
        frac  == StripTrailingZeros(d.fp)
    IN  (IF whole = <<>> THEN <<"0">> ELSE whole) \o <<".">>
            \o (IF frac = <<>> THEN <<"0">> ELSE frac)

GoogleSheetsRow(d, i, a) == [transaction_date |-> d, items |-> i, total_amount |-> a]

(***************************************************************************)
(* SheetsService.build_mapped_row                                          *)
(***************************************************************************)
Max3(a, b, c) == IF a >= b /\ a >= c THEN a ELSE IF b >= c THEN b ELSE c

RECURSIVE join(_, _)
join(sep, values) ==
    IF Len(values) = 0 THEN <<>>
    ELSE IF Len(values) = 1 THEN values[1]
    ELSE values[1] \o sep \o join(sep, Tail(values))

\* row[idx] = value on a Python list: a negative idx counts from the end,
\* anything outside -len..len-1 raises IndexError
list_setitem(row, idx, value) ==
    IF idx >= 0 /\ idx < Len(row)
    THEN [raised |-> "None", row |-> [row EXCEPT ![idx + 1] = value]]
    ELSE IF idx < 0 /\ idx >= -Len(row)
    THEN [raised |-> "None", row |-> [row EXCEPT ![Len(row) + idx + 1] = value]]
    ELSE [raised |-> "IndexError", row |-> <<>>]

list_getitem(row, idx) == IF idx >= 0 THEN row[idx + 1] ELSE row[Len(row) + idx + 1]

SEPARATOR == <<" ", "|", " ">>

\* column_values: the dict's keys in insertion order, and each key's list
column_keys(idxs) ==
    <<idxs[1]>> \o (IF idxs[2] = idxs[1] THEN <<>> ELSE <<idxs[2]>>)
                \o (IF idxs[3] \in {idxs[1], idxs[2]} THEN <<>> ELSE <<idxs[3]>>)

column_values_reversed(idxs, rendered, k) ==
    (IF idxs[3] = k THEN <<rendered[3]>> ELSE <<>>)
        \o (IF idxs[2] = k THEN <<rendered[2]>> ELSE <<>>)
        \o (IF idxs[1] = k THEN <<rendered[1]>> ELSE <<>>)

column_values(idxs, rendered, k) ==
    (IF idxs[1] = k THEN <<rendered[1]>> ELSE <<>>)
        \o (IF idxs[2] = k THEN <<rendered[2]>> ELSE <<>>)
        \o (IF idxs[3] = k THEN <<rendered[3]>> ELSE <<>>)

RECURSIVE write_cells(_, _, _, _)
write_cells(row, keys, idxs, rendered) ==
    IF Len(keys) = 0 THEN [raised |-> "None", row |-> row]
    ELSE LET values == column_values(idxs, rendered, keys[1])
             cell   == IF Len(values) = 1 THEN values[1] ELSE join(SEPARATOR, values)
             res    == list_setitem(row, keys[1], cell)
         IN  IF res.raised # "None" THEN res
             ELSE write_cells(res.row, Tail(keys), idxs, rendered)

build_mapped_row(row_data, mappings) ==
    LET date_idx  == get_column_index(mappings.date_column)
        desc_idx  == get_column_index(mappings.description_column)
        price_idx == get_column_index(mappings.price_column)
        max_index == Max3(date_idx, desc_idx, price_idx)
        row       == [i \in 1..(max_index + 1) |-> <<>>]
        idxs      == <<date_idx, desc_idx, price_idx>>
        rendered  == <<strftime_Ymd(row_data.transaction_date),
                       row_data.items,
                       str_float(row_data.total_amount)>>
    IN  write_cells(row, column_keys(idxs), idxs, rendered)

(***************************************************************************)
(* Inputs of the column codec and of the row builder                       *)
(***************************************************************************)
MaxRefLen == 3

Strings(S, n) == UNION {[1..k -> S] : k \in 0..n}

ColChars == {"A", "Z", "a", "1", " ", "\n", A_GRAVE}

\* what a client may send as a column reference
RefInputs == Strings(ColChars, MaxRefLen)

\* the references A..ZZ
ColumnReferences == {<<c>> : c \in Range(UPPER)} \cup {<<c, e>> : c \in Range(UPPER), e \in Range(UPPER)}

ConfigRefs ==
    { <<"A">>, <<"B">>, <<"C">>, <<"F">>, <<"A","A">>, <<"Z","Z">>,
      <<"A","\n">>, <<"B","\n">>, <<"A","A","\n">>, <<"Z","\n">>, <<"W","X">>,
      <<>>, <<" ">>, <<"a">>, <<"A","A","A">> }

ConfigInputs == {ColumnMappingConfiguration(d, s, p) : d \in ConfigRefs, s \in ConfigRefs, p \in ConfigRefs}

\* save_column_mappings stores a configuration only when validate() accepts it
StoredConfigs == {c \in ConfigInputs : config_validate(c).ok}

Date_2024_01_15 == [year |-> 2024, month |-> 1, day |-> 15]

Date_2025_09_28 == [year |-> 2025, month |-> 9, day |-> 28]

Coffee == <<"C","o","f","f","e","e">>

CoffeeBagel == <<"C","o","f","f","e","e",";"," ","B","a","g","e","l">>

RowData ==
    { GoogleSheetsRow(Date_2024_01_15, CoffeeBagel, [ip |-> <<"1","5">>, fp |-> <<"5","0">>]),
      GoogleSheetsRow(Date_2025_09_28, Coffee, [ip |-> <<"2","5">>, fp |-> <<>>]) }

NoResult == [none |-> TRUE]

\* no preferences file on disk
NoFile == [exists |-> FALSE]

\* a call of a pure function touches nothing of the server
NoServer ==
    /\ uploads = {}
    /\ preferences = NoFile
    /\ worksheet = <<>>
    /\ local = NoResult
    /\ calls = <<>>
    /\ history = <<>>

(***************************************************************************)
(* Calls of the codec, the configuration and the row builder               *)
(***************************************************************************)
Init ==
    /\ NoServer
    /\ pc = "call"
    /\ out = NoResult
    /\ \/ op = "validate" /\ inp \in RefInputs
       \/ op = "to_index" /\ inp \in ColumnReferences
       \/ op = "from_index" /\ inp \in 0..MAX_COLUMN_INDEX
       \/ op = "build_mapped_row"
          /\ inp \in {[row_data |-> r, mappings |-> c] : r \in RowData, c \in StoredConfigs}

Return(result) ==
    /\ pc' = "return"
    /\ out' = result
    /\ UNCHANGED <<op, inp>>
    /\ UNCHANGED server

Validate ==
    /\ pc = "call" /\ op = "validate"
    /\ Return(validate(inp))

ToIndex ==
    /\ pc = "call" /\ op = "to_index"
    /\ Return(to_index(inp))

FromIndex ==
    /\ pc = "call" /\ op = "from_index"
    /\ Return(from_index(inp))

BuildMappedRow ==
    /\ pc = "call" /\ op = "build_mapped_row"
    /\ Return(build_mapped_row(inp.row_data, inp.mappings))

Next == Validate \/ ToIndex \/ FromIndex \/ BuildMappedRow

Spec == Init /\ [][Next]_vars

Returned(name) == pc = "return" /\ op = name

(***************************************************************************)
(* Column codec, configuration and row builder: properties                 *)
(***************************************************************************)
IsColumnReference(s) == Len(s) \in {1, 2} /\ \A i \in 1..Len(s) : IsAsciiUpper(s[i])

\* C1: on the references A..ZZ and the indices 0..701 the codec is a two-sided
\* inverse: from_index(to_index(r)) = r and to_index(from_index(i)) = i.
C1_RoundTrip ==
    /\ Returned("to_index") => (out \in 0..MAX_COLUMN_INDEX /\ from_index(out) = inp)
    /\ Returned("from_index") => (IsColumnReference(out) /\ to_index(out) = inp)

C1_Witness ==
    /\ Returned("from_index")
    /\ inp = 701
    /\ out = <<"Z", "Z">>
    /\ to_index(out) = 701

\* what the three fields of a call's row data look like in a cell
DateText == strftime_Ymd(inp.row_data.transaction_date)

ItemsText == inp.row_data.items

AmountText == str_float(inp.row_data.total_amount)

DateIdx == to_index(inp.mappings.date_column)

DescIdx == to_index(inp.mappings.description_column)

PriceIdx == to_index(inp.mappings.price_column)

RowReturned == Returned("build_mapped_row") /\ out.raised = "None"

Text_2024_01_15_15_5 ==
    <<"2","0","2","4","-","0","1","-","1","5"," ","|"," ","1","5",".","5">>

\* C2: in a returned row, the cell of a column shared by two or three fields
\* holds their values joined by " | " in the order date, description, price;
\* (A, B, A) with 2024-01-15 and 15.50 gives "2024-01-15 | 15.5" in cell 0.
C2_DuplicatesJoinedInFieldOrder ==
    RowReturned =>
        /\ (DateIdx = DescIdx /\ DescIdx = PriceIdx) =>
              list_getitem(out.row, DateIdx)
                  = DateText \o SEPARATOR \o ItemsText \o SEPARATOR \o AmountText
        /\ (DateIdx = DescIdx /\ DescIdx # PriceIdx) =>
              list_getitem(out.row, DateIdx) = DateText \o SEPARATOR \o ItemsText
        /\ (DateIdx = PriceIdx /\ DescIdx # PriceIdx) =>
              list_getitem(out.row, DateIdx) = DateText \o SEPARATOR \o AmountText
        /\ (DescIdx = PriceIdx /\ DateIdx # DescIdx) =>
              list_getitem(out.row, DescIdx) = ItemsText \o SEPARATOR \o AmountText
        /\ (/\ inp.mappings = ColumnMappingConfiguration(<<"A">>, <<"B">>, <<"A">>)
            /\ inp.row_data.transaction_date = Date_2024_01_15) =>
              out.row = <<Text_2024_01_15_15_5, CoffeeBagel>>

C2_Witness ==
    /\ RowReturned
    /\ inp.mappings = ColumnMappingConfiguration(<<"A">>, <<"B">>, <<"A">>)
    /\ inp.row_data.transaction_date = Date_2024_01_15
    /\ out.row[1] = Text_2024_01_15_15_5

\* C3: for every configuration validate() accepts, build_mapped_row returns a
\* row of exactly 1 + the largest column index cells, between 1 and 702.
C3_RowLength ==
    Returned("build_mapped_row") =>
        /\ out.raised = "None"
        /\ Len(out.row) = 1 + Max3(DateIdx, DescIdx, PriceIdx)
        /\ Len(out.row) \in 1..(MAX_COLUMN_INDEX + 1)

C3_Witness ==
    /\ Returned("build_mapped_row")
    /\ config_validate(inp.mappings).ok
    /\ inp.mappings.date_column = <<"A", "\n">>
    /\ out.raised = "IndexError"

Targets(i) == {f \in {"date", "description", "price"} :
                 \/ f = "date" /\ DateIdx = i
                 \/ f = "description" /\ DescIdx = i
                 \/ f = "price" /\ PriceIdx = i}

FieldText(f) == IF f = "date" THEN DateText ELSE IF f = "description" THEN ItemsText ELSE AmountText

\* C4: in a returned row, a cell no mapping targets is empty and a cell that
\* exactly one field targets holds that field's value (date as YYYY-MM-DD,
\* items unchanged, amount as a plain decimal).
C4_SparseCells ==
    RowReturned =>
        \A i \in 0..(Len(out.row) - 1) :
            /\ Targets(i) = {} => out.row[i + 1] = <<>>
            /\ (\E f \in Targets(i) : Targets(i) = {f}) =>
                   out.row[i + 1] = FieldText(CHOOSE f \in Targets(i) : TRUE)

C4_Witness ==
    /\ RowReturned
    /\ inp.mappings = ColumnMappingConfiguration(<<"B", "\n">>, <<"A">>, <<"F">>)
    /\ Targets(3) = {}
    /\ out.row[4] = DateText

\* the classification the column codec documents
ExpectedValidation(s) ==
    IF IsColumnReference(s) THEN Valid
    ELSE IF Len(s) >= 3 /\ \A i \in 1..Len(s) : IsAsciiUpper(s[i]) THEN Invalid("COLUMN_OUT_OF_RANGE")
    ELSE Invalid("INVALID_COLUMN_FORMAT")

\* C5: validate(s) is valid exactly for one or two upper-case ASCII letters,
\* COLUMN_OUT_OF_RANGE for three or more of them, and INVALID_COLUMN_FORMAT
\* for every other string.
C5_Classification == Returned("validate") => out = ExpectedValidation(inp)

C5_Witness ==
    /\ Returned("validate")
    /\ inp = <<"A", "\n">>
    /\ out = Valid

(***************************************************************************)
(* Text helpers of the receipt text interpreter                            *)
(***************************************************************************)
\* the character at position i, or "" past the end of the text
At(text, i) == IF i >= 1 /\ i <= Len(text) THEN text[i] ELSE ""

\* how many characters from position i on are digits (white space)
DigitRun(text, i) ==
    CHOOSE n \in 0..Len(text) :
        /\ \A k \in i..(i + n - 1) : IsDigit(At(text, k))
        /\ ~IsDigit(At(text, i + n))

SpaceRun(text, i) ==
    CHOOSE n \in 0..Len(text) :
        /\ \A k \in i..(i + n - 1) : IsSpace(At(text, k))
        /\ ~IsSpace(At(text, i + n))

StartsWith(text, i, word) ==
    /\ i + Len(word) - 1 <= Len(text)
    /\ \A k \in 1..Len(word) : text[i + k - 1] = word[k]

\* word in text
Contains(text, word) == \E i \in 1..(Len(text) - Len(word) + 1) : StartsWith(text, i, word)

\* str.lower()
lower(text) == [i \in 1..Len(text) |->
                  IF IsAsciiUpper(text[i]) THEN LOWER[Pos(UPPER, text[i])] ELSE text[i]]

\* str.replace(old, new) for a one-character old and a new of at most one
replace(text, old, new) ==
    IF new = <<>> THEN SelectSeq(text, LAMBDA c : c # old)
    ELSE [i \in 1..Len(text) |-> IF text[i] = old THEN new[1] ELSE text[i]]

\* str.split(sep) for a one-character separator
RECURSIVE split(_, _)
split(text, sep) ==
    IF \A i \in 1..Len(text) : text[i] # sep THEN <<text>>
    ELSE LET k == CHOOSE i \in 1..Len(text) :
                      text[i] = sep /\ \A j \in 1..(i - 1) : text[j] # sep
         IN  <<SubSeq(text, 1, k - 1)>> \o split(SubSeq(text, k + 1, Len(text)), sep)

\* str.rindex(c)
rindex(text, c) == CHOOSE i \in 1..Len(text) : text[i] = c /\ \A j \in (i + 1)..Len(text) : text[j] # c

RECURSIVE Flatten(_)
Flatten(seqs) == IF Len(seqs) = 0 THEN <<>> ELSE seqs[1] \o Flatten(Tail(seqs))

Minimum(S) == CHOOSE x \in S : \A y \in S : x <= y

\* F applied to the value of x, with x evaluated once
Bind(x, F(_)) == CHOOSE r \in {F(v) : v \in {x}} : TRUE

(***************************************************************************)
(* The two amount patterns of extract_total_amount.  A match is the        *)
(* half-open span [start, end) of group(1); 0 stands for "no match".       *)
(***************************************************************************)
EURO == "EURO_SIGN"

POUND == "POUND_SIGN"

CURRENCY_MARKERS == << <<"R","p">>, <<"U","S","D">>, <<"$">>, <<EURO>>, <<POUND>> >>

IsSeparator(c) == c \in {".", ","}

\* (?:[.,]\d{3})* , greedy
RECURSIVE ThousandsGroups(_, _)
ThousandsGroups(text, i) ==
    IF IsSeparator(At(text, i)) /\ DigitRun(text, i + 1) >= 3
    THEN ThousandsGroups(text, i + 4)
    ELSE i

\* (\d{1,3}(?:[.,]\d{3})*(?:[.,]\d{2})?) at g: every part is greedy and what
\* follows it can match the empty string, so nothing is ever given back
InternationalGroupEnd(text, g) ==
    IF ~IsDigit(At(text, g)) THEN 0
    ELSE LET run == DigitRun(text, g)
             a   == g + (IF run < 3 THEN run ELSE 3)
             b   == ThousandsGroups(text, a)
         IN  IF IsSeparator(At(text, b)) /\ DigitRun(text, b + 1) >= 2 THEN b + 3 ELSE b

\* (\d+[,.]?\d*\.?\d{2}) at g: the first success in backtracking order, which
\* prefers more digits for \d+, then taking [,.], then more digits for \d*,
\* then taking the dot
USGroupEnd(text, g) ==
    LET Before(t, u) ==
            \/ t.n1 > u.n1
            \/ t.n1 = u.n1 /\ t.sep > u.sep
            \/ t.n1 = u.n1 /\ t.sep = u.sep /\ t.n2 > u.n2
            \/ t.n1 = u.n1 /\ t.sep = u.sep /\ t.n2 = u.n2 /\ t.dot > u.dot
        End(Try) ==
            IF Try = {} THEN 0
            ELSE LET first == CHOOSE t \in Try : \A u \in Try : u = t \/ Before(t, u)
                 IN  g + first.n1 + first.sep + first.n2 + first.dot + 2
        run  == DigitRun(text, g)
        more == DigitRun(text, g + run + 1)
    IN  Bind({t \in [n1 : 1..run, sep : {0, 1}, n2 : 0..(IF run > more THEN run ELSE more), dot : {0, 1}] :
                LET i1 == g + t.n1
                    i2 == i1 + t.sep
                    i3 == i2 + t.n2
                    i4 == i3 + t.dot
                IN  /\ (t.sep = 1 => IsSeparator(At(text, i1)))
                    /\ t.n2 <= DigitRun(text, i2)
                    /\ (t.dot = 1 => At(text, i3) = ".")
                    /\ DigitRun(text, i4) >= 2},
             End)

GroupEnd(pattern, text, g) ==
    IF pattern = 1 THEN InternationalGroupEnd(text, g) ELSE USGroupEnd(text, g)

\* the places where group(1) may start for a match that starts at p, in the
\* order the engine tries them: with the currency marker before without it,
\* and \s* giving back one character at a time
GroupStarts(pattern, text, p) ==
    LET markers == IF pattern = 1 THEN CURRENCY_MARKERS ELSE << <<"$">> >>
        found   == {k \in 1..Len(markers) : StartsWith(text, p, markers[k])}
        after(q) == [k \in 1..(SpaceRun(text, q) + 1) |-> q + SpaceRun(text, q) + 1 - k]
    IN  (IF found = {} THEN <<>> ELSE after(p + Len(markers[Minimum(found)]))) \o after(p)

\* pattern.match at p: the span of group(1), or start = 0
MatchAt(pattern, text, p) ==
    LET Span(g) == [start |-> g, end |-> GroupEnd(pattern, text, g)]
        First(spans) ==
            LET good == {k \in 1..Len(spans) : spans[k].end # 0}
            IN  IF good = {} THEN [start |-> 0, end |-> 0] ELSE spans[Minimum(good)]
        Spans(starts) == [k \in 1..Len(starts) |-> Span(starts[k])]
    IN  Bind(Bind(GroupStarts(pattern, text, p), Spans), First)

\* [m.group(1) for m in re.finditer(pattern, text)], scanning from pos: the
\* leftmost match, then on from its end
RECURSIVE finditer(_, _, _)
finditer(pattern, text, pos) ==
    LET Rest(m) ==
            IF m.start = 0 THEN finditer(pattern, text, pos + 1)
            ELSE <<SubSeq(text, m.start, m.end - 1)>> \o finditer(pattern, text, m.end)
    IN  IF pos > Len(text) THEN <<>> ELSE Bind(MatchAt(pattern, text, pos), Rest)

(***************************************************************************)
(* ParserService.extract_total_amount                                      *)
(***************************************************************************)
None == [none |-> TRUE]

\* the result of one pass of a loop body that ended in "continue"
Skipped == [ok |-> FALSE, ip |-> <<>>, fp |-> <<>>]

\* Decimal(amount_str) for a string of digits, "." and ",": digits with at
\* most one decimal point, anything else raises InvalidOperation, which the
\* loop body catches as ArithmeticError
Decimal(amount_str) ==
    LET parts == split(amount_str, ".")
    IN  IF /\ \A i \in 1..Len(amount_str) : IsDigit(amount_str[i]) \/ amount_str[i] = "."
           /\ \E i \in 1..Len(amount_str) : IsDigit(amount_str[i])
           /\ Len(parts) <= 2
        THEN [ok |-> TRUE, ip |-> parts[1], fp |-> IF Len(parts) = 2 THEN parts[2] ELSE <<>>]
        ELSE Skipped

Last(s) == s[Len(s)]

MAX_AMOUNT_DIGITS == 10

adjacent_amount_comma_thousands(group) ==
    LET amount_str == replace(replace(group, ",", <<>>), " ", <<>>)
    IN  IF Len(replace(amount_str, ".", <<>>)) > MAX_AMOUNT_DIGITS THEN Skipped
        ELSE Decimal(amount_str)

\* lines 159-188: one candidate near a "total" line
adjacent_amount(group) ==
    LET resolved ==
            IF "." \in Range(group) /\ "," \in Range(group)
            THEN IF rindex(group, ".") > rindex(group, ",")
                 THEN replace(group, ",", <<>>)
                 ELSE replace(replace(group, ".", <<>>), ",", <<".">>)
            ELSE IF "." \in Range(group)
            THEN IF Len(Last(split(group, "."))) = 3
                 THEN replace(group, ".", <<>>)
                 ELSE group
            ELSE IF "," \in Range(group)
            THEN IF Len(Last(split(group, ","))) = 2
                 THEN replace(group, ",", <<".">>)
                 ELSE replace(group, ",", <<>>)
            ELSE group
        amount_str == replace(resolved, " ", <<>>)
    IN  IF Len(replace(amount_str, ".", <<>>)) > MAX_AMOUNT_DIGITS THEN Skipped
        ELSE Decimal(amount_str)

\* lines 204-219: one candidate of the fallback over the whole text
fallback_amount(group) ==
    LET stripped == replace(replace(replace(group, ",", <<>>), " ", <<>>), ".", <<>>)
        reparsed == IF "." \in Range(group) /\ Len(Last(split(group, "."))) = 3
                    THEN replace(group, ".", <<>>)
                    ELSE group
        amount_str == replace(replace(reparsed, ",", <<>>), " ", <<>>)
    IN  IF Len(stripped) > MAX_AMOUNT_DIGITS THEN Skipped
        ELSE Decimal(amount_str)

AMOUNT_PATTERNS == <<1, 2>>

is_total_line(line) ==
    Contains(lower(line), <<"t","o","t","a","l">>)
        /\ ~Contains(lower(line), <<"s","u","b","t","o","t","a","l">>)

search_lines_no_next(lines, i) ==
    SubSeq(lines, (IF i - 1 > 1 THEN i - 1 ELSE 1), i)

\* lines[max(0, i-1):min(len(lines), i+2)], i counted from 1
search_lines(lines, i) ==
    SubSeq(lines, (IF i - 1 > 1 THEN i - 1 ELSE 1), (IF i + 1 < Len(lines) THEN i + 1 ELSE Len(lines)))

\* the strings match.group(1) takes in the loop over the "total" lines
adjacent_matches(ocr_text) ==
    LET in_line(search_line) ==
            Flatten([k \in 1..Len(AMOUNT_PATTERNS) |-> finditer(AMOUNT_PATTERNS[k], search_line, 1)])
        \* a line gives the same matches in every window it is part of
        in_windows(found) ==
            Flatten([i \in 1..Len(found) |->
                        IF found[i].total THEN Flatten(search_lines([j \in 1..Len(found) |-> found[j].matches], i))
                        ELSE <<>>])
        in_lines(lines) ==
            LET near(j) == \E i \in 1..Len(lines) : is_total_line(lines[i]) /\ j \in (i - 1)..(i + 1)
            IN  Bind([j \in 1..Len(lines) |->
                         [total |-> is_total_line(lines[j]),
                          matches |-> IF near(j) THEN in_line(lines[j]) ELSE <<>>]] \o <<>>,
                     in_windows)
    IN  Bind(split(ocr_text, "\n"), in_lines)

\* the strings match.group(1) takes in the fallback loop
fallback_matches(ocr_text) ==
    Flatten([k \in 1..Len(AMOUNT_PATTERNS) |-> finditer(AMOUNT_PATTERNS[k], ocr_text, 1)])

IsAccepted(amount) == amount.ok

AsDecimal(amount) == [ip |-> amount.ip, fp |-> amount.fp]

\* max(...): the first of the largest elements, found in one pass
RECURSIVE max_from(_, _, _)
max_from(amounts, k, best) ==
    LET next(b) == max_from(amounts, k + 1, b)
    IN  IF k > Len(amounts) THEN best
        ELSE Bind(IF DecimalLess(best, amounts[k]) THEN amounts[k] ELSE best, next)

max_amount(amounts) == AsDecimal(max_from(amounts, 2, amounts[1]))

\* every match of a loop with what the loop body made of it
Parsed(matches, parse(_)) ==
    LET all(ms) == [k \in 1..Len(ms) |-> [text |-> ms[k], amount |-> parse(ms[k])]] \o <<>>
    IN  Bind(matches, all)

\* the amounts a loop appends: those of the matches that are not skipped
appended(parsed) == SelectSeq([k \in 1..Len(parsed) |-> parsed[k].amount], IsAccepted)

\* extract_total_amount with, besides the returned pair, every match of
\* the two loops and what it was parsed to.  Confidences are written in
\* hundredths: 95 is 0.95
extract_total_amount_traced(ocr_text) ==
    LET fallback(parsed) ==
            [value            |-> IF Len(appended(parsed)) = 0 THEN None ELSE max_amount(appended(parsed)),
             confidence       |-> IF Len(appended(parsed)) = 0 THEN 0 ELSE 75,
             total_candidates |-> <<>>,
             amounts          |-> parsed]
        near_total(parsed) ==
            IF Len(appended(parsed)) > 0
            THEN [value            |-> max_amount(appended(parsed)),
                  confidence       |-> 95,
                  total_candidates |-> parsed,
                  amounts          |-> <<>>]
            ELSE LET rest(r) == [r EXCEPT !.total_candidates = parsed]
                 IN  Bind(Bind(Parsed(fallback_matches(ocr_text), fallback_amount), fallback), rest)
    IN  Bind(Parsed(adjacent_matches(ocr_text), adjacent_amount), near_total)

extract_total_amount(ocr_text) ==
    LET pair(r) == [value |-> r.value, confidence |-> r.confidence]
    IN  Bind(extract_total_amount_traced(ocr_text), pair)

(***************************************************************************)
(* Receipt texts for the amount extractor                                  *)
(***************************************************************************)
MaxSeparators == 2

MaxLines == 3

SeparatorChars == {".", ","}

FirstGroups == { <<"1">>, <<"1","2">>, <<"1","2","3">> }

NextGroups == { <<"5">>, <<"5","0">>, <<"5","0","0">> }

\* digit groups with up to n separators between them
RECURSIVE Numerals(_)
Numerals(n) ==
    IF n = 0 THEN FirstGroups
    ELSE Numerals(n - 1) \cup
         {a \o <<s>> \o g : a \in Numerals(n - 1), s \in SeparatorChars, g \in NextGroups}

LineStarts ==
    { <<>>,
      <<"T","o","t","a","l"," ","$">>,
      <<"T","O","T","A","L"," ">>,
      <<"S","u","b","t","o","t","a","l"," ">> }

OneLineTexts == {h \o n : h \in LineStarts, n \in Numerals(MaxSeparators)}

Line_Subtotal_14_50 == <<"S","u","b","t","o","t","a","l"," ","$","1","4",".","5","0">>

Line_Total_15_95 == <<"T","o","t","a","l"," ","$","1","5",".","9","5">>

Line_Total == <<"T","o","t","a","l">>

Line_20_00 == <<"C","a","s","h"," ","2","0",",","0","0">>

Line_Phone == <<"T","e","l"," ","1","2","3","4","5","6","7","8","9","0","1">>

LinePool == {Line_Subtotal_14_50, Line_Total_15_95, Line_Total, Line_20_00, Line_Phone, <<>>}

JoinLines(lines) == join(<<"\n">>, lines)

ManyLineTexts == {JoinLines(ls) : ls \in UNION {[1..n -> LinePool] : n \in 2..MaxLines}}

Text_Total_1_234_56 == <<"T","o","t","a","l"," ","1",".","2","3","4",",","5","6">>

Text_Total_300_150 == <<"T","o","t","a","l"," ","R","p"," ","3","0","0",".","1","5","0">>

Text_Total_12_50 == <<"T","o","t","a","l"," ","1","2",",","5","0">>

Text_Total_1_234 == <<"T","o","t","a","l"," ","1",",","2","3","4">>

Text_Total_11_digits == <<"T","o","t","a","l"," ","1","2","3","4","5","6","7","8","9","0","1">>

Text_Total_10_digits == <<"T","o","t","a","l"," ","1","2","3","4","5","6","7","8","9","0">>

Text_11_digits == <<"9","9","9","9","9","9","9","9","9","9","9">>

ExampleTexts ==
    { Text_Total_1_234_56, Text_Total_300_150, Text_Total_12_50, Text_Total_1_234,
      Text_Total_11_digits, Text_Total_10_digits, Text_11_digits,
      <<>>, <<"T","o","t","a","l">> }

AmountTexts == OneLineTexts \cup ManyLineTexts \cup ExampleTexts

(***************************************************************************)
(* Calls of extract_total_amount.  Besides the returned pair the call      *)
(* records, for every match of the two loops, the string group(1) took     *)
(* and the amount it was parsed to (or that it was skipped).               *)
(***************************************************************************)
InitAmount ==
    /\ NoServer
    /\ pc = "call"
    /\ out = NoResult
    /\ op = "extract_total_amount"
    /\ inp \in AmountTexts

ExtractTotalAmount ==
    /\ pc = "call" /\ op = "extract_total_amount"
    /\ \E r \in {extract_total_amount_traced(inp)} : Return(r)

NextAmount == ExtractTotalAmount

SpecAmount == InitAmount /\ [][NextAmount]_vars

(***************************************************************************)
(* extract_total_amount: properties                                        *)
(***************************************************************************)
SameLetter(c, d) == c = d \/ (IsAsciiUpper(c) /\ LOWER[Pos(UPPER, c)] = d)

\* the lower-case word occurs in the line, in any letter case
HasWord(line, word) ==
    \E i \in 1..(Len(line) - Len(word) + 1) :
        \A k \in 1..Len(word) : SameLetter(line[i + k - 1], word[k])

InputLines == split(inp, "\n")

TotalLines ==
    {i \in 1..Len(InputLines) :
        /\ HasWord(InputLines[i], <<"t","o","t","a","l">>)
        /\ ~HasWord(InputLines[i], <<"s","u","b","t","o","t","a","l">>)}

NearTotalLines == {j \in 1..Len(InputLines) : \E i \in TotalLines : j \in {i - 1, i, i + 1}}

\* the valid amounts on the lines next to a "total" line
AmountsNearTotal ==
    {a \in {adjacent_amount(c) :
               c \in UNION {Range(finditer(k, InputLines[j], 1)) : j \in NearTotalLines, k \in {1, 2}}} :
        a.ok}

IsLargestOf(value, amounts) ==
    /\ value # None
    /\ \E a \in amounts : DecimalEqual(value, a)
    /\ \A a \in amounts : ~DecimalLess(value, a)

Text_Subtotal_Total == Line_Subtotal_14_50 \o <<"\n">> \o Line_Total_15_95

\* C6: when a valid amount stands on a line with "total" (any case) and
\* without "subtotal", or on the line before or after one, the result is the
\* largest of those amounts with confidence 0.95; a "subtotal" line starts no
\* search; "Subtotal $14.50" then "Total $15.95" gives 15.95.
C6_LargestNearTotal ==
    Returned("extract_total_amount") =>
        /\ \A near \in {AmountsNearTotal} :
              near # {} => (out.confidence = 95 /\ IsLargestOf(out.value, near))
        /\ TotalLines = {} => out.confidence # 95
        /\ inp = Text_Subtotal_Total =>
              out.value = [ip |-> <<"1","5">>, fp |-> <<"9","5">>]

C6_Witness ==
    /\ Returned("extract_total_amount")
    /\ inp = Text_Subtotal_Total
    /\ TotalLines = {2}
    /\ out.confidence = 95
    /\ out.value = [ip |-> <<"1","5">>, fp |-> <<"9","5">>]

\* The separator rules in words: which character of a candidate is its
\* decimal separator
LastSeparator(s) == CHOOSE i \in 1..Len(s) : IsSeparator(s[i]) /\ \A j \in (i + 1)..Len(s) : ~IsSeparator(s[j])

FinalGroupLen(s) == Len(s) - LastSeparator(s)

DecimalSeparator(s) ==
    IF \A i \in 1..Len(s) : ~IsSeparator(s[i]) THEN "none"
    ELSE IF \E i, j \in 1..Len(s) : s[i] = "." /\ s[j] = "," THEN s[LastSeparator(s)]
    ELSE IF s[LastSeparator(s)] = "." THEN (IF FinalGroupLen(s) = 3 THEN "none" ELSE ".")
    ELSE (IF FinalGroupLen(s) = 2 THEN "," ELSE "none")

DigitsOf(s) == SelectSeq(s, IsDigit)

\* the amount the rules give a candidate: Skipped when it has more than ten
\* digits or when the rules leave it no single decimal separator
ResolvedAmount(s) ==
    LET marks == UNION {{i \in 1..Len(s) : s[i] = d} : d \in {DecimalSeparator(s)}}
    IN  IF Len(DigitsOf(s)) > MAX_AMOUNT_DIGITS \/ Cardinality(marks) > 1 THEN Skipped
        ELSE IF marks = {} THEN [ok |-> TRUE, ip |-> DigitsOf(s), fp |-> <<>>]
        ELSE LET m == CHOOSE i \in marks : TRUE
             IN  [ok |-> TRUE, ip |-> DigitsOf(SubSeq(s, 1, m - 1)),
                  fp |-> DigitsOf(SubSeq(s, m + 1, Len(s)))]

SameAmount(a, b) == a.ok = b.ok /\ (a.ok => DecimalEqual(a, b))

ValueIs(ip, fp) == out.value # None /\ DecimalEqual(out.value, [ip |-> ip, fp |-> fp])

\* C7: each candidate near a "total" line is resolved by the separator rules
\* (both: the rightmost is the decimal separator; only ".": thousands when the
\* final group has 3 digits, else decimal; only ",": decimal when the final
\* group has 2 digits, else thousands), and more than 10 digits are rejected.
C7_SeparatorRules ==
    Returned("extract_total_amount") =>
        /\ \A k \in 1..Len(out.total_candidates) :
              SameAmount(out.total_candidates[k].amount,
                         ResolvedAmount(out.total_candidates[k].text))
        /\ inp = Text_Total_1_234_56 => ValueIs(<<"1","2","3","4">>, <<"5","6">>)
        /\ inp = Text_Total_300_150 => ValueIs(<<"3","0","0","1","5","0">>, <<>>)
        /\ inp = Text_Total_12_50 => ValueIs(<<"1","2">>, <<"5","0">>)
        /\ inp = Text_Total_1_234 => ValueIs(<<"1","2","3","4">>, <<>>)
        /\ inp = Text_Total_11_digits =>
              \A k \in 1..Len(out.total_candidates) :
                  Len(out.total_candidates[k].text) > MAX_AMOUNT_DIGITS
                      => ~out.total_candidates[k].amount.ok

C7_Witness ==
    /\ Returned("extract_total_amount")
    /\ inp = Text_Total_1_234_56
    /\ \E k \in 1..Len(out.total_candidates) :
          /\ out.total_candidates[k].text = <<"1",".","2","3","4",",","5","6">>
          /\ out.total_candidates[k].amount = [ok |-> TRUE, ip |-> <<"1","2","3","4">>, fp |-> <<"5","6">>]
    /\ out.confidence = 95

\* the amounts of the whole text under the rules of the total-adjacent path
AmountsAnywhere ==
    {a \in {adjacent_amount(c) : c \in UNION {Range(finditer(k, inp, 1)) : k \in {1, 2}}} : a.ok}

\* C8: without a total-adjacent candidate the fallback gives every candidate
\* of the whole text the value the total-adjacent path gives it, and returns
\* the largest with confidence 0.75.
C8_FallbackSameRules ==
    (Returned("extract_total_amount") /\ out.confidence # 95) =>
        /\ \A k \in 1..Len(out.amounts) :
              SameAmount(out.amounts[k].amount, adjacent_amount(out.amounts[k].text))
        /\ \A anywhere \in {AmountsAnywhere} :
              anywhere # {} => (out.confidence = 75 /\ IsLargestOf(out.value, anywhere))

C8_Witness ==
    /\ Returned("extract_total_amount")
    /\ inp = <<"1","2",",","5","0">>
    /\ out.confidence = 75
    /\ out.value = [ip |-> <<"1","2","5","0">>, fp |-> <<>>]
    /\ adjacent_amount(inp) = [ok |-> TRUE, ip |-> <<"1","2">>, fp |-> <<"5","0">>]

(***************************************************************************)
(* ParserService.extract_date                                              *)
(***************************************************************************)
ParserError == [raised |-> "ParserError"]

ValueError == [raised |-> "ValueError"]

Date(y, m, d) == [year |-> y, month |-> m, day |-> d]

\* int() of a string of digits
RECURSIVE ToInt(_)
ToInt(s) == IF Len(s) = 0 THEN 0 ELSE 10 * ToInt(SubSeq(s, 1, Len(s) - 1)) + (Pos(DIGITS, s[Len(s)]) - 1)

IsLeap(y) == (y % 4 = 0 /\ y % 100 # 0) \/ y % 400 = 0

DaysInMonth(y, m) ==
    IF m = 2 THEN (IF IsLeap(y) THEN 29 ELSE 28)
    ELSE IF m \in {4, 6, 9, 11} THEN 30 ELSE 31

\* datetime(y, m, d): ValueError unless it is a day of the calendar
MakeDate(y, m, d) ==
    IF y >= 1 /\ m \in 1..12 /\ d >= 1 /\ d <= DaysInMonth(y, m) THEN Date(y, m, d) ELSE ValueError

\* the structured patterns: "d" stands for \d, anything else for itself
ISO_SHAPE == <<"d","d","d","d","-","d","d","-","d","d">>

US_SHAPE == <<"d","d","/","d","d","/","d","d","d","d">>

EU_SHAPE == <<"d","d","-","d","d","-","d","d","d","d">>

ShapeEnd(shape, text, p) ==
    IF \A i \in 1..Len(shape) :
          IF shape[i] = "d" THEN IsDigit(At(text, p + i - 1)) ELSE At(text, p + i - 1) = shape[i]
    THEN p + Len(shape)
    ELSE 0

IsLetter(c) == IsAsciiUpper(c) \/ IsAsciiLower(c)

LetterRun(text, i) ==
    CHOOSE n \in 0..Len(text) :
        /\ \A k \in i..(i + n - 1) : IsLetter(At(text, k))
        /\ ~IsLetter(At(text, i + n))

\* \d{1,2}\s+[A-Za-z]{3,9}\s+\d{4} at p: a part that is followed by a
\* character of its own class can give nothing back that would help
DayMonthYearEnd(text, p) ==
    LET a == p + DigitRun(text, p)
        b == a + SpaceRun(text, a)
        c == b + LetterRun(text, b)
        d == c + SpaceRun(text, c)
    IN  IF /\ a - p \in {1, 2}
           /\ b > a
           /\ c - b \in 3..9
           /\ d > c
           /\ DigitRun(text, d) >= 4
        THEN d + 4
        ELSE 0

\* [A-Za-z]{3}\s+\d{1,2},?\s+\d{4} at p
MonthDayYearEnd(text, p) ==
    LET a == p + 3
        b == a + SpaceRun(text, a)
        c == b + DigitRun(text, b)
        d == IF At(text, c) = "," THEN c + 1 ELSE c
        e == d + SpaceRun(text, d)
    IN  IF /\ \A k \in p..(p + 2) : IsLetter(At(text, k))
           /\ b > a
           /\ c - b \in {1, 2}
           /\ e > d
           /\ DigitRun(text, e) >= 4
        THEN e + 4
        ELSE 0

DATE_PATTERNS == <<"iso", "us", "eu", "day month year", "month day year">>

DateMatchEnd(k, text, p) ==
    IF k = 1 THEN ShapeEnd(ISO_SHAPE, text, p)
    ELSE IF k = 2 THEN ShapeEnd(US_SHAPE, text, p)
    ELSE IF k = 3 THEN ShapeEnd(EU_SHAPE, text, p)
    ELSE IF k = 4 THEN DayMonthYearEnd(text, p)
    ELSE MonthDayYearEnd(text, p)

\* the matches of pattern k anywhere in the text, by start position
DateMatches(k, text) == {p \in 1..Len(text) : DateMatchEnd(k, text, p) # 0}

MatchText(k, text, p) == SubSeq(text, p, DateMatchEnd(k, text, p) - 1)

\* re.search(pattern, ocr_text, re.IGNORECASE).group(): the leftmost match
re_search(k, text) ==
    IF DateMatches(k, text) = {} THEN None
    ELSE MatchText(k, text, Minimum(DateMatches(k, text)))

Field(s, from, to) == ToInt(SubSeq(s, from, to))

\* datetime.strptime(s, format).date() for a match of pattern 1, 2 or 3
strptime(k, s) ==
    IF k = 1 THEN MakeDate(Field(s, 1, 4), Field(s, 6, 7), Field(s, 9, 10))
    ELSE IF k = 2 THEN MakeDate(Field(s, 7, 10), Field(s, 1, 2), Field(s, 4, 5))
    ELSE MakeDate(Field(s, 7, 10), Field(s, 4, 5), Field(s, 1, 2))

MONTH_NAMES ==
    << <<"j","a","n">>, <<"f","e","b">>, <<"m","a","r">>, <<"a","p","r">>,
       <<"m","a","y">>, <<"j","u","n">>, <<"j","u","l">>, <<"a","u","g">>,
       <<"s","e","p">>, <<"o","c","t">>, <<"n","o","v">>, <<"d","e","c">> >>

IsMonthName(w) == \E m \in 1..12 : MONTH_NAMES[m] = lower(w)

MonthOf(w) == CHOOSE m \in 1..12 : MONTH_NAMES[m] = lower(w)

\* The library is not part of the repository: a complete day, month name and
\* year ("22 Sep 2025", "Jan 15, 2025") is the date it names; for any other
\* string the library answers as it will, which is the parameter.
complete_date(s, library) ==
    LET a == 1 + DigitRun(s, 1)
        b == a + SpaceRun(s, a)
        c == b + LetterRun(s, b)
        d == c + SpaceRun(s, c)
        w == 4 + SpaceRun(s, 4)
        x == w + DigitRun(s, w)
        y == IF At(s, x) = "," THEN x + 1 ELSE x
        z == y + SpaceRun(s, y)
    IN  IF DayMonthYearEnd(s, 1) = Len(s) + 1 /\ IsMonthName(SubSeq(s, b, c - 1))
        THEN IF MakeDate(Field(s, d, d + 3), MonthOf(SubSeq(s, b, c - 1)), Field(s, 1, a - 1)) = ValueError
             THEN ParserError
             ELSE MakeDate(Field(s, d, d + 3), MonthOf(SubSeq(s, b, c - 1)), Field(s, 1, a - 1))
        ELSE IF MonthDayYearEnd(s, 1) = Len(s) + 1 /\ IsMonthName(SubSeq(s, 1, 3))
        THEN IF MakeDate(Field(s, z, z + 3), MonthOf(SubSeq(s, 1, 3)), Field(s, w, x - 1)) = ValueError
             THEN ParserError
             ELSE MakeDate(Field(s, z, z + 3), MonthOf(SubSeq(s, 1, 3)), Field(s, w, x - 1))
        ELSE library

\* raised by the library when a number of the string does not fit a C int;
\* no except clause of extract_date names it
OverflowError == [raised |-> "OverflowError"]

MAX_C_INT == <<"2","1","4","7","4","8","3","6","4","7">>

\* a bare number of 11 digits is read as a year
IsBareYear(s) == Len(s) = 11 /\ \A i \in 1..Len(s) : IsDigit(s[i])

\* a day and a month name without a year: "22 Sep", "Sep 22"
IsYearless(s) ==
    LET dated == s \o <<" ","2","0","0","0">>
    IN  /\ Len(s) > 0
        /\ \/ /\ IsLetter(s[Len(s)])
              /\ DayMonthYearEnd(dated, 1) = Len(dated) + 1
              /\ IsMonthName(SubSeq(s, Len(s) - 2, Len(s)))
              /\ LetterRun(s, Len(s) - 2) = 3 /\ ~IsLetter(At(s, Len(s) - 3))
           \/ /\ IsDigit(s[Len(s)])
              /\ MonthDayYearEnd(dated, 1) = Len(dated) + 1
              /\ IsMonthName(SubSeq(s, 1, 3))

\* dateutil.parser.parse(s, fuzzy=True).date(), called on the day today.
\* What the string leaves out is taken from the default, which is today:
\* a day and month without a year are of this year.  A year beyond the C
\* int raises OverflowError in datetime.replace, a year beyond 9999
\* ValueError, which the library hands on as ParserError.
dateutil_parse(s, library, today) ==
    IF IsBareYear(s)
    THEN (IF Len(StripLeadingZeros(s)) > Len(MAX_C_INT)
             \/ (Len(StripLeadingZeros(s)) = Len(MAX_C_INT) /\ DigitsLess(MAX_C_INT, StripLeadingZeros(s)))
          THEN OverflowError
          ELSE library)
    ELSE IF IsYearless(s)
    THEN complete_date(s \o <<" ">> \o ZeroPad(IntToStr(today.year), 4), library)
    ELSE complete_date(s, library)

\* the exceptions of "except (ValueError, date_parser.ParserError)"
IsRaised(r) == r \in {ParserError, ValueError}

\* lines 47-57: one pattern's match, parsed
parse_match(k, s, library, today) ==
    IF k <= 3 THEN strptime(k, s) ELSE dateutil_parse(s, library, today)

\* confidences are written in hundredths: 90 is 0.9
\* an exception that no except clause names leaves the function
RECURSIVE try_patterns(_, _, _, _)
try_patterns(k, ocr_text, library, today) ==
    LET fallback(parsed) ==
            IF IsRaised(parsed) THEN [value |-> None, confidence |-> 0]
            ELSE IF parsed = OverflowError THEN OverflowError
            ELSE [value |-> parsed, confidence |-> 70]
        attempt(parsed) ==
            IF IsRaised(parsed) THEN try_patterns(k + 1, ocr_text, library, today)
            ELSE IF parsed = OverflowError THEN OverflowError
            ELSE [value |-> parsed, confidence |-> 90]
        found(matches) ==
            IF matches = None THEN try_patterns(k + 1, ocr_text, library, today)
            ELSE Bind(parse_match(k, matches, library, today), attempt)
    IN  IF k > Len(DATE_PATTERNS)
        THEN Bind(dateutil_parse(ocr_text, library, today), fallback)
        ELSE Bind(re_search(k, ocr_text), found)

extract_date(ocr_text, library, today) == try_patterns(1, ocr_text, library, today)

(***************************************************************************)
(* Texts for extract_date: date-like pieces in every order                 *)
(***************************************************************************)
MaxChunks == 3

Chunk_2025_09_28 == <<"2","0","2","5","-","0","9","-","2","8">>

Chunk_2025_13_45 == <<"2","0","2","5","-","1","3","-","4","5">>

Chunk_09_28_2025 == <<"0","9","/","2","8","/","2","0","2","5">>

Chunk_01_02_2024 == <<"0","1","/","0","2","/","2","0","2","4">>

Chunk_13_45_2025 == <<"1","3","/","4","5","/","2","0","2","5">>

Chunk_28_09_2025 == <<"2","8","-","0","9","-","2","0","2","5">>

Chunk_31_02_2025 == <<"3","1","-","0","2","-","2","0","2","5">>

Chunk_22_Sep_2025 == <<"2","2"," ","S","e","p"," ","2","0","2","5">>

Chunk_Jan_15_2025 == <<"J","a","n"," ","1","5",","," ","2","0","2","5">>

Chunk_Date == <<"D","a","t","e",":">>

DateChunks ==
    { Chunk_2025_09_28, Chunk_2025_13_45, Chunk_09_28_2025, Chunk_01_02_2024,
      Chunk_13_45_2025, Chunk_28_09_2025, Chunk_31_02_2025, Chunk_22_Sep_2025,
      Chunk_Jan_15_2025, Chunk_Date }

DateTexts == {join(<<" ">>, cs) : cs \in UNION {[1..n -> DateChunks] : n \in 1..MaxChunks}}

\* what the library may answer for a string that is not a plain textual date
Date_2000_01_01 == Date(2000, 1, 1)

LibraryAnswers == {ParserError, Date_2000_01_01}

\* the days on which the program may be called
Clock == {Date(2025, 12, 31), Date(2026, 1, 1)}

InitDate ==
    /\ NoServer
    /\ pc = "call"
    /\ op = "extract_date"
    /\ inp \in DateTexts
    /\ out = NoResult

ExtractDate ==
    /\ pc = "call"
    /\ op = "extract_date"
    /\ \E library \in LibraryAnswers, today \in Clock :
          \E r \in {extract_date(inp, library, today)} : Return(r)

NextDate == ExtractDate

SpecDate == InitDate /\ [][NextDate]_vars

(***************************************************************************)
(* C9, C10: which date extract_date returns                                *)
(***************************************************************************)
\* the dates that the matches of pattern k, anywhere in the text, parse to
PatternDates(k, text) ==
    {d \in {parse_match(k, MatchText(k, text, p), ParserError, Date_2000_01_01) : p \in DateMatches(k, text)} :
        ~IsRaised(d)}

HasParseableMatch(text) == \E k \in 1..Len(DATE_PATTERNS) : PatternDates(k, text) # {}

HighestPriority(text) ==
    CHOOSE k \in 1..Len(DATE_PATTERNS) :
        /\ PatternDates(k, text) # {}
        /\ \A j \in 1..(k - 1) : PatternDates(j, text) = {}

\* every match of a textual pattern is a plain textual date, so that what
\* the library makes of it is known
TextualMatchesKnown(text) ==
    \A k \in 4..5 : \A p \in DateMatches(k, text) :
        complete_date(MatchText(k, text, p), ParserError) = complete_date(MatchText(k, text, p), Date_2000_01_01)

\* C9: when some pattern has a match in the text that parses, extract_date
\* returns with confidence 0.9 a date of the highest-priority such pattern,
\* wherever in the text the matches are.
C9_HighestPriorityParseable ==
    (Returned("extract_date") /\ TextualMatchesKnown(inp) /\ HasParseableMatch(inp))
        => /\ out.confidence = 90
           /\ out.value \in PatternDates(HighestPriority(inp), inp)

\* a text whose first ISO match is no day of the calendar and whose second is
C9_Witness ==
    /\ Returned("extract_date")
    /\ inp = join(<<" ">>, <<Chunk_2025_13_45, Chunk_2025_09_28>>)
    /\ out.confidence # 90

\* C10: a text with a parseable MM/DD/YYYY date and no ISO-form date gives,
\* with confidence 0.9, a date that the text writes as MM/DD/YYYY.
C10_USDateWithoutISO ==
    (Returned("extract_date") /\ PatternDates(2, inp) # {} /\ DateMatches(1, inp) = {})
        => /\ out.confidence = 90
           /\ out.value \in PatternDates(2, inp)

\* "13/45/2025 09/28/2025": the date 09/28/2025 is in the text, and is not returned
C10_Witness ==
    /\ Returned("extract_date")
    /\ inp = join(<<" ">>, <<Chunk_13_45_2025, Chunk_09_28_2025>>)
    /\ out.value # Date(2025, 9, 28)

(***************************************************************************)
(* ParserService.extract_items                                             *)
(***************************************************************************)
EXCLUSION_KEYWORDS ==
    { <<"s","u","b","t","o","t","a","l">>,
      <<"t","a","x">>,
      <<"t","o","t","a","l">>,
      <<"a","m","o","u","n","t">>,
      <<"d","u","e">>,
      <<"b","a","l","a","n","c","e">>,
      <<"c","h","a","n","g","e">> }

\* str.strip()
strip(s) ==
    LET inner == {i \in 1..Len(s) : ~IsSpace(s[i])}
    IN  IF inner = {} THEN <<>>
        ELSE SubSeq(s, Minimum(inner), CHOOSE i \in inner : \A j \in inner : j <= i)

\* ' '.join(s.split()) for a stripped s: every run of white space becomes
\* one blank
collapse(s) ==
    LET kept == SelectSeq([i \in 1..Len(s) |-> i],
                          LAMBDA i : ~IsSpace(s[i]) \/ ~IsSpace(At(s, i - 1)))
    IN  [k \in 1..Len(kept) |-> IF IsSpace(s[kept[k]]) THEN " " ELSE s[kept[k]]]

\* re.search(r'x\d+', line_lower)
quantity_search(line_lower) ==
    \E p \in 1..Len(line_lower) : line_lower[p] = "x" /\ IsDigit(At(line_lower, p + 1))

\* re.search(item_amount_pattern, line): the currency marker, the white
\* space and both groups may match nothing, so the search succeeds at the
\* first digit of the line, and only there
item_amount_search(line) == \E p \in 1..Len(line) : IsDigit(line[p])

\* re.match(r'^\d+$', cleaned_line)
is_number(cleaned_line) ==
    Len(cleaned_line) > 0 /\ \A i \in 1..Len(cleaned_line) : IsDigit(cleaned_line[i])

MAX_COMPACT_LENGTH == 15

\* len(cleaned_line.replace(' ', '').replace('.', '')) > 15
is_phone_like(cleaned_line) ==
    Len(replace(replace(cleaned_line, " ", <<>>), ".", <<>>)) > MAX_COMPACT_LENGTH

item_of_as_written(line) ==
    LET kept(cleaned_line) ==
            IF is_number(cleaned_line) \/ is_phone_like(cleaned_line) THEN None ELSE cleaned_line
        checked(line_stripped) ==
            IF line_stripped = <<>> THEN None
            ELSE IF \E keyword \in EXCLUSION_KEYWORDS : Contains(line_stripped, keyword) THEN None
            ELSE IF quantity_search(lower(line_stripped)) \/ item_amount_search(line)
                 THEN Bind(collapse(strip(line)), kept)
            ELSE None
    IN  Bind(strip(line), checked)

\* one pass of the loop body: the line appended to items, or None
item_of(line) ==
    LET kept(cleaned_line) ==
            IF is_number(cleaned_line) \/ is_phone_like(cleaned_line) THEN None ELSE cleaned_line
        checked(line_lower) ==
            IF line_lower = <<>> THEN None
            ELSE IF \E keyword \in EXCLUSION_KEYWORDS : Contains(line_lower, keyword) THEN None
            ELSE IF quantity_search(line_lower) \/ item_amount_search(line)
                 THEN Bind(collapse(strip(line)), kept)
            ELSE None
    IN  Bind(strip(lower(line)), checked)

max_length == 500

extract_items_uncut(ocr_text) ==
    LET result(items) ==
            IF Len(items) = 0
            THEN [value |-> None, confidence |-> 0, items |-> items]
            ELSE [value |-> join(<<";", " ">>, items), confidence |-> 85, items |-> items]
        loop(lines) ==
            Bind(SelectSeq([i \in 1..Len(lines) |-> item_of(lines[i])] \o <<>>, LAMBDA item : item # None),
                 result)
    IN  Bind(split(ocr_text, "\n"), loop)

\* extract_items with, besides the returned pair, the list of items before
\* it is joined.  Confidences are written in hundredths: 85 is 0.85
extract_items_traced(ocr_text) ==
    LET cut(concatenated) ==
            IF Len(concatenated) > max_length THEN SubSeq(concatenated, 1, max_length)
            ELSE concatenated
        result(items) ==
            IF Len(items) = 0
            THEN [value |-> None, confidence |-> 0, items |-> items]
            ELSE [value |-> Bind(join(<<";", " ">>, items), cut), confidence |-> 85, items |-> items]
        loop(lines) ==
            Bind(SelectSeq([i \in 1..Len(lines) |-> item_of(lines[i])] \o <<>>, LAMBDA item : item # None),
                 result)
    IN  Bind(split(ocr_text, "\n"), loop)

extract_items_empty_string(ocr_text) ==
    LET pair(r) == [value |-> IF r.value = None THEN <<>> ELSE r.value, confidence |-> r.confidence]
    IN  Bind(extract_items_traced(ocr_text), pair)

extract_items(ocr_text) ==
    LET pair(r) == [value |-> r.value, confidence |-> r.confidence]
    IN  Bind(extract_items_traced(ocr_text), pair)

(***************************************************************************)
(* Receipt texts for extract_items                                         *)
(***************************************************************************)
MaxItemLines == 3

LongTextLines == 34

Line_Coffee == <<"C","o","f","f","e","e"," ","x","2"," ","7",".","0","0">>

Line_Bagel == <<" "," ","B","a","g","e","l"," ","\t"," ","3",".","5","0"," ">>

Line_Nasi_Goreng == <<"N","a","s","i"," ","G","o","r","e","n","g"," ","x","2"," ","5","0",".","0","0","0">>

Line_Tel == <<"T","e","l"," ","0","8","1","2","3","4","5","6","7","8","9","0","1","2","3">>

Line_12345 == <<"1","2","3","4","5">>

Line_TAX == <<"T","A","X"," ","1",".","2","0">>

Line_Exchange == <<"E","x","c","h","a","n","g","e"," ","1",".","0","0">>

Line_Thank_you == <<"T","h","a","n","k"," ","y","o","u">>

ItemLines ==
    { Line_Coffee, Line_Bagel, Line_Nasi_Goreng, Line_Tel, Line_12345, Line_TAX,
      Line_Exchange, Line_Thank_you, Line_Total_15_95, <<>> }

ShortItemTexts == {JoinLines(ls) : ls \in UNION {[1..n -> ItemLines] : n \in 1..MaxItemLines}}

\* receipts long enough for the items to pass 500 characters
LongItemTexts ==
    {JoinLines(<<first>> \o [i \in 1..n |-> Line_Coffee]) :
        first \in {Line_Coffee, Line_Bagel, Line_TAX}, n \in (LongTextLines - 4)..LongTextLines}

ItemTexts == ShortItemTexts \cup LongItemTexts

InitItems ==
    /\ NoServer
    /\ pc = "call"
    /\ op = "extract_items"
    /\ inp \in ItemTexts
    /\ out = NoResult

ExtractItems ==
    /\ pc = "call"
    /\ op = "extract_items"
    /\ \E r \in {extract_items_traced(inp)} : Return(r)

NextItems == ExtractItems

SpecItems == InitItems /\ [][NextItems]_vars

(***************************************************************************)
(* extract_items: properties                                               *)
(***************************************************************************)
HasKeyword(s) == \E keyword \in EXCLUSION_KEYWORDS : HasWord(s, keyword)

\* the lines of the input as they would stand in the items
CleanedLines == [i \in 1..Len(InputLines) |-> collapse(strip(InputLines[i]))]

\* a line that is not blank, not excluded, and has a quantity marker or an
\* amount-shaped substring
IsCandidateLine(s) ==
    /\ s # <<>>
    /\ ~HasKeyword(s)
    /\ \/ \E p \in 1..Len(s) : s[p] \in {"x", "X"} /\ IsDigit(At(s, p + 1))
       \/ \E p \in 1..Len(s) : IsDigit(s[p])

IsPunctuation(c) == ~IsDigit(c) /\ ~IsLetter(c) /\ ~IsSpace(c)

\* what is left of a line without its digits and punctuation
WithoutDigitsAndPunctuation(s) == SelectSeq(s, LAMBDA c : ~IsDigit(c) /\ ~IsPunctuation(c))

PurelyNumeric(s) == s # <<>> /\ \A i \in 1..Len(s) : IsDigit(s[i])

\* C13: of the candidate lines, the dropped ones are exactly the purely
\* numeric ones and those longer than 15 characters once digits and
\* punctuation are removed; every other candidate line is kept.
C13_DroppedLines ==
    Returned("extract_items") =>
        \A i \in 1..Len(CleanedLines) :
            IsCandidateLine(CleanedLines[i]) =>
                ((CleanedLines[i] \notin Range(out.items))
                    <=> (PurelyNumeric(CleanedLines[i])
                            \/ Len(WithoutDigitsAndPunctuation(CleanedLines[i])) > 15))

\* "Nasi Goreng x2 50.000" has 14 characters that are no digit or
\* punctuation, and is dropped
C13_Witness ==
    /\ Returned("extract_items")
    /\ inp = Line_Nasi_Goreng
    /\ Len(WithoutDigitsAndPunctuation(Line_Nasi_Goreng)) = 14
    /\ out.items = <<>>
    /\ out.value = None

\* C14: no line with an exclusion keyword, in any letter case, becomes an
\* item, and the returned string contains none of the keywords in any letter
\* case.
C14_NoExcludedKeyword ==
    Returned("extract_items") =>
        /\ \A k \in 1..Len(out.items) : ~HasKeyword(out.items[k])
        /\ \A i \in 1..Len(CleanedLines) :
              HasKeyword(InputLines[i]) => \A k \in 1..Len(out.items) : out.items[k] # CleanedLines[i]
        /\ out.value # None => ~HasKeyword(out.value)

C14_Witness ==
    /\ Returned("extract_items")
    /\ inp = JoinLines(<<Line_TAX, Line_Coffee, Line_Exchange>>)
    /\ out.value = Line_Coffee

\* the first n characters of the items joined with "; "
JoinedPrefix(items, n) ==
    LET offset(k) == IF k = 1 THEN 0 ELSE Len(Flatten(SubSeq(items, 1, k - 1))) + 2 * (k - 1)
        total == IF Len(items) = 0 THEN 0 ELSE offset(Len(items)) + Len(items[Len(items)])
        char(j) ==
            LET k == CHOOSE k \in 1..Len(items) : offset(k) < j /\ j <= offset(k) + Len(items[k]) + 2
                q == j - offset(k)
            IN  IF q <= Len(items[k]) THEN items[k][q]
                ELSE IF q = Len(items[k]) + 1 THEN ";" ELSE " "
    IN  [j \in 1..(IF total < n THEN total ELSE n) |-> char(j)]

\* the surviving lines in their order of appearance
SurvivingLines == SelectSeq([i \in 1..Len(InputLines) |-> item_of(InputLines[i])], LAMBDA item : item # None)

\* C15: the items string is the first 500 characters of the surviving lines
\* joined with "; " in their order of appearance; it is never longer than
\* 500 and never empty.
C15_JoinedAndCut ==
    Returned("extract_items") =>
        /\ out.items = SurvivingLines
        /\ SurvivingLines = <<>> <=> out.value = None
        /\ out.value # None =>
              /\ out.value = JoinedPrefix(out.items, 500)
              /\ Len(out.value) <= 500
              /\ Len(out.value) > 0

C15_Witness ==
    /\ Returned("extract_items")
    /\ Len(out.items) > 1
    /\ Len(Flatten(out.items)) + 2 * (Len(out.items) - 1) > 500
    /\ Len(out.value) = 500
    /\ out.value # None

(***************************************************************************)
(* ParserService.parse_receipt_data, called twice on one text              *)
(***************************************************************************)
\* an exception of extract_date leaves parse_receipt_data as well: there is
\* no try around the three calls
parse_receipt_data(ocr_text, library, today) ==
    LET fields(date) ==
            LET with_items(items) ==
                    LET with_amount(amount) ==
                            [transaction_date            |-> date.value,
                             transaction_date_confidence |-> date.confidence,
                             items                       |-> items.value,
                             items_confidence            |-> items.confidence,
                             total_amount                |-> amount.value,
                             total_amount_confidence     |-> amount.confidence]
                    IN  Bind(extract_total_amount(ocr_text), with_amount)
            IN  Bind(extract_items(ocr_text), with_items)
        called(date) == IF date = OverflowError THEN OverflowError ELSE fields(date)
    IN  Bind(extract_date(ocr_text, library, today), called)

MaxParseLines == 2

Line_Sep_22 == <<"S","e","p"," ","2","2">>

Line_Barcode == <<"0","8","3","3","5","3","9","4","5","5","0">>

ParseLines ==
    { Line_Sep_22, Line_Barcode, Chunk_22_Sep_2025, Line_Coffee, Line_Total_15_95,
      Line_Thank_you }

ParseTexts == {JoinLines(ls) : ls \in UNION {[1..n -> ParseLines] : n \in 1..MaxParseLines}}

\* the text and what the library makes of a string it has no plain reading
\* of; out collects the results of the calls
InitParse ==
    /\ NoServer
    /\ pc = "call"
    /\ op = "parse_receipt_data"
    /\ inp \in [text : ParseTexts, library : LibraryAnswers]
    /\ out = <<>>

\* one call, on whatever day it is
ParseReceiptData ==
    /\ pc \in {"call", "again"}
    /\ op = "parse_receipt_data"
    /\ \E today \in Clock :
          \E r \in {parse_receipt_data(inp.text, inp.library, today)} : out' = Append(out, r)
    /\ pc' = IF pc = "call" THEN "again" ELSE "return"
    /\ UNCHANGED <<op, inp>>
    /\ UNCHANGED server

NextParse == ParseReceiptData

SpecParse == InitParse /\ [][NextParse]_vars

(***************************************************************************)
(* parse_receipt_data: properties                                          *)
(***************************************************************************)
Parsing == op = "parse_receipt_data"

\* C11: two calls on the same text give the same result, whatever the day
\* of each call.
C11_SameResultEveryCall ==
    (Parsing /\ Len(out) = 2) => out[1] = out[2]

\* "Sep 22" parsed on 2025-12-31 and on 2026-01-01
C11_Witness ==
    /\ Parsing /\ Len(out) = 2
    /\ inp.text = Line_Sep_22
    /\ out[1].transaction_date = Date(2025, 9, 22)
    /\ out[2].transaction_date = Date(2026, 9, 22)
    /\ out[1].transaction_date_confidence = 70

\* C12: no call raises; the items and the amount of the result are what
\* their extractors give for the text, whatever happened to the date.
C12_NeverRaises ==
    Parsing =>
        \A k \in 1..Len(out) :
            /\ out[k] # OverflowError
            /\ [value |-> out[k].items, confidence |-> out[k].items_confidence] = extract_items(inp.text)
            /\ [value |-> out[k].total_amount, confidence |-> out[k].total_amount_confidence]
                  = extract_total_amount(inp.text)

\* a bare 11-digit number: the year does not fit datetime.replace
C12_Witness ==
    /\ Parsing /\ Len(out) > 0
    /\ inp.text = Line_Barcode
    /\ extract_items(inp.text) = [value |-> None, confidence |-> 0]
    /\ out[1] = OverflowError

\* C16: each confidence is one of its extractor's fixed values, and a value
\* is None exactly when its confidence is 0.0.
C16_FixedConfidences ==
    Parsing =>
        \A k \in 1..Len(out) :
            out[k] # OverflowError =>
                /\ out[k].transaction_date_confidence \in {90, 70, 0}
                /\ out[k].items_confidence \in {85, 0}
                /\ out[k].total_amount_confidence \in {95, 75, 0}
                /\ \A c \in {out[k].transaction_date_confidence, out[k].items_confidence,
                             out[k].total_amount_confidence} : c >= 0 /\ c <= 100
                /\ out[k].transaction_date = None <=> out[k].transaction_date_confidence = 0
                /\ out[k].items = None <=> out[k].items_confidence = 0
                /\ out[k].total_amount = None <=> out[k].total_amount_confidence = 0

\* "Thank you" then "Coffee x2 7.00": no date, one item, an amount from the
\* fallback
C16_Witness ==
    /\ Parsing /\ Len(out) > 0
    /\ inp.text = JoinLines(<<Line_Thank_you, Line_Coffee>>)
    /\ out[1].transaction_date = None /\ out[1].transaction_date_confidence = 0
    /\ out[1].items = Line_Coffee /\ out[1].items_confidence = 85
    /\ out[1].total_amount # None /\ out[1].total_amount_confidence = 75

(***************************************************************************)
(* ColumnMappingConfiguration: to_dict, from_dict and the duplicates       *)
(***************************************************************************)
to_dict_swapped(self) ==
    [date |-> self.date_column, description |-> self.price_column, price |-> self.description_column]

to_dict(self) ==
    [date |-> self.date_column, description |-> self.description_column, price |-> self.price_column]

from_dict(data) == ColumnMappingConfiguration(data.date, data.description, data.price)

\* len(columns) != len(set(columns))
has_duplicates(self) ==
    Cardinality({self.date_column, self.description_column, self.price_column}) # 3

\* (column, field) in the order of the loop
fields_of(self) ==
    << [column |-> self.date_column, field |-> "date"],
       [column |-> self.description_column, field |-> "description"],
       [column |-> self.price_column, field |-> "price"] >>

\* the dict column_to_fields after the loop, as its items in insertion
\* order: a key is inserted when its column is first met, and takes the
\* fields of that column in the order of the loop
column_to_fields(fields) ==
    LET first == SelectSeq([i \in 1..Len(fields) |-> i],
                           LAMBDA i : \A j \in 1..(i - 1) : fields[j].column # fields[i].column)
        named(column) ==
            LET same == SelectSeq(fields, LAMBDA f : f.column = column)
            IN  [k \in 1..Len(same) |-> same[k].field]
    IN  [k \in 1..Len(first) |->
            [column |-> fields[first[k]].column, field_list |-> named(fields[first[k]].column)]]

get_duplicate_columns_all(self) == column_to_fields(fields_of(self))

get_duplicate_columns(self) ==
    SelectSeq(column_to_fields(fields_of(self)), LAMBDA item : Len(item.field_list) > 1)

DictInputs == {to_dict(c) : c \in ConfigInputs}

InitConfig ==
    /\ NoServer
    /\ pc = "call"
    /\ out = NoResult
    /\ \/ op \in {"config_validate", "to_dict", "has_duplicates", "get_duplicate_columns"}
          /\ inp \in ConfigInputs
       \/ op = "from_dict" /\ inp \in DictInputs

ConfigValidate ==
    /\ pc = "call" /\ op = "config_validate"
    /\ Return(config_validate(inp))

ToDict ==
    /\ pc = "call" /\ op = "to_dict"
    /\ Return(to_dict(inp))

FromDict ==
    /\ pc = "call" /\ op = "from_dict"
    /\ Return(from_dict(inp))

HasDuplicates ==
    /\ pc = "call" /\ op = "has_duplicates"
    /\ Return(has_duplicates(inp))

GetDuplicateColumns ==
    /\ pc = "call" /\ op = "get_duplicate_columns"
    /\ Return(get_duplicate_columns(inp))

NextConfig == ConfigValidate \/ ToDict \/ FromDict \/ HasDuplicates \/ GetDuplicateColumns

SpecConfig == InitConfig /\ [][NextConfig]_vars

(***************************************************************************)
(* ColumnMappingConfiguration: properties                                  *)
(***************************************************************************)
FIELD_NAMES == <<"date_column", "description_column", "price_column">>

ColumnOf(config, k) ==
    IF k = 1 THEN config.date_column
    ELSE IF k = 2 THEN config.description_column ELSE config.price_column

\* the first field, in the order date, description, price, for which Bad holds
Earliest(Bad(_)) == Minimum({k \in 1..3 : Bad(k)})

DICT_FIELDS == <<"date", "description", "price">>

\* the field names that use the column, as a set
FieldsUsing(config, column) == {DICT_FIELDS[k] : k \in {j \in 1..3 : ColumnOf(config, j) = column}}

DuplicatedColumns(config) ==
    {column \in {ColumnOf(config, k) : k \in 1..3} : Cardinality(FieldsUsing(config, column)) >= 2}

\* C18: has_duplicates() is true exactly when some column is used by two or
\* more fields; get_duplicate_columns() has one entry for each such column,
\* with exactly the names of the fields that use it, and no other entry.
C18_Duplicates ==
    /\ Returned("has_duplicates") =>
          /\ out = (DuplicatedColumns(inp) # {})
          /\ out = (Len(get_duplicate_columns(inp)) > 0)
    /\ Returned("get_duplicate_columns") =>
          /\ {out[k].column : k \in 1..Len(out)} = DuplicatedColumns(inp)
          /\ \A k, j \in 1..Len(out) : out[k].column = out[j].column => k = j
          /\ \A k \in 1..Len(out) :
                /\ Range(out[k].field_list) = FieldsUsing(inp, out[k].column)
                /\ Len(out[k].field_list) = Cardinality(FieldsUsing(inp, out[k].column))

C18_Witness ==
    /\ Returned("get_duplicate_columns")
    /\ inp = ColumnMappingConfiguration(<<"A">>, <<"B">>, <<"A">>)
    /\ out = << [column |-> <<"A">>, field_list |-> <<"date", "price">>] >>

\* C19: from_dict(to_dict(c)) = c for every configuration c, and
\* to_dict(from_dict(d)) = d for every dictionary d with the three keys.
C19_SerializationRoundTrip ==
    /\ Returned("to_dict") =>
          /\ DOMAIN out = {"date", "description", "price"}
          /\ from_dict(out) = inp
    /\ Returned("from_dict") => to_dict(out) = inp

C19_Witness ==
    /\ Returned("to_dict")
    /\ inp = ColumnMappingConfiguration(<<"A">>, <<"B">>, <<"C">>)
    /\ out = [date |-> <<"A">>, description |-> <<"B">>, price |-> <<"C">>]
    /\ from_dict(out) = inp

(***************************************************************************)
(* C20: to_index in closed form                                            *)
(***************************************************************************)
LetterValue(c) == Pos(UPPER, c) - 1

\* C20: a single letter maps to its position in the alphabet, c1c2 to
\* (pos(c1) + 1) * 26 + pos(c2); over the 702 references the map is
\* injective and its range is exactly 0..701; A, Z, AA, AZ and ZZ map to 0,
\* 25, 26, 51 and 701.
C20_ToIndexFormula ==
    Returned("to_index") =>
        /\ out = IF Len(inp) = 1 THEN LetterValue(inp[1])
                 ELSE (LetterValue(inp[1]) + 1) * 26 + LetterValue(inp[2])
        /\ \A other \in ColumnReferences : to_index(other) = out => other = inp
        /\ out \in 0..701
        /\ inp = <<"A">> => out = 0 /\ {to_index(r) : r \in ColumnReferences} = 0..701
        /\ inp = <<"Z">> => out = 25
        /\ inp = <<"A","A">> => out = 26
        /\ inp = <<"A","Z">> => out = 51
        /\ inp = <<"Z","Z">> => out = 701

C20_Witness ==
    /\ Returned("to_index")
    /\ inp = <<"A","Z">>
    /\ out = 51

(***************************************************************************)
(* UserPreference and the preferences file.  The file is NoFile or holds   *)
(* a dict from session id to entry; the two timestamps of an entry are     *)
(* left out, nothing reads them.                                           *)
(***************************************************************************)
UserPreference(id, session_id, spreadsheet_id, sheet_tab_name, column_mappings) ==
    [id |-> id, user_session_id |-> session_id, spreadsheet_id |-> spreadsheet_id,
     sheet_tab_name |-> sheet_tab_name, column_mappings |-> column_mappings]

\* UserPreference.create: a new id, no column mappings
create(id, session_id, spreadsheet_id, sheet_tab_name) ==
    UserPreference(id, session_id, spreadsheet_id, sheet_tab_name, None)

has_column_mappings(self) ==
    self.column_mappings # None /\ Cardinality(DOMAIN self.column_mappings) > 0

get_column_mappings(self) ==
    IF ~has_column_mappings(self) THEN None ELSE from_dict(self.column_mappings)

set_column_mappings_once(self, config) ==
    IF self.column_mappings # None THEN self ELSE [self EXCEPT !.column_mappings = to_dict(config)]

set_column_mappings(self, config) == [self EXCEPT !.column_mappings = to_dict(config)]

File(content) == [exists |-> TRUE, content |-> content]

\* preferences = {}; if STORAGE_FILE.exists(): preferences = json.load(f)
load(file) == IF file.exists THEN file.content ELSE <<>>

pref_data(self) ==
    IF self.column_mappings # None
    THEN [id |-> self.id, spreadsheet_id |-> self.spreadsheet_id,
          sheet_tab_name |-> self.sheet_tab_name, column_mappings |-> self.column_mappings]
    ELSE [id |-> self.id, spreadsheet_id |-> self.spreadsheet_id,
          sheet_tab_name |-> self.sheet_tab_name]

\* preferences[key] = value on a dict
dict_setitem(dict, key, value) ==
    [k \in DOMAIN dict \cup {key} |-> IF k = key THEN value ELSE dict[k]]

\* del preferences[key]
dict_delitem(dict, key) == [k \in DOMAIN dict \ {key} |-> dict[k]]

\* what save() writes, having loaded preferences
saved(self, loaded) == File(dict_setitem(loaded, self.user_session_id, pref_data(self)))

\* what delete() leaves, having loaded preferences: the file without the
\* entry, or no file when no entry remains
deleted(self, loaded) ==
    IF DOMAIN dict_delitem(loaded, self.user_session_id) # {}
    THEN File(dict_delitem(loaded, self.user_session_id))
    ELSE NoFile

save(self, file) == saved(self, load(file))

delete(self, file) == IF ~file.exists THEN file ELSE deleted(self, load(file))

load_by_session_id(file, session_id) ==
    IF ~file.exists THEN None
    ELSE IF session_id \notin DOMAIN file.content THEN None
    ELSE LET data == file.content[session_id]
         IN  UserPreference(data.id, session_id, data.spreadsheet_id, data.sheet_tab_name,
                            IF "column_mappings" \in DOMAIN data THEN data.column_mappings ELSE None)

(***************************************************************************)
(* SheetsService.append_row, step by step: the checks, the opening of the  *)
(* worksheet, each attempt to append, the reading of the row number.  What *)
(* the spreadsheet answers to a call is the environment's choice.          *)
(***************************************************************************)
FIVE_MINUTES == 300

check_token_validity_strict(token_expiry, now) ==
    IF token_expiry < now + FIVE_MINUTES
    THEN [ok |-> FALSE, error |-> "AUTH_EXPIRED"]
    ELSE [ok |-> TRUE, error |-> ""]

check_token_validity(token_expiry, now) ==
    IF token_expiry <= now \/ token_expiry <= now + FIVE_MINUTES
    THEN [ok |-> FALSE, error |-> "AUTH_EXPIRED"]
    ELSE [ok |-> TRUE, error |-> ""]

IsNegative(amount) == "sign" \in DOMAIN amount /\ amount.sign = "-"

\* GoogleSheetsRow.validate
row_validate(self) ==
    IF self.transaction_date = None THEN Invalid("Transaction date is required")
    ELSE IF IsBlank(self.items) THEN Invalid("Items are required")
    ELSE IF self.total_amount = None THEN Invalid("Total amount is required")
    ELSE IF IsNegative(self.total_amount) THEN Invalid("Total amount must be non-negative")
    ELSE Valid

Ok == [raised |-> "None", status_code |-> 0]

APIError(status_code) == [raised |-> "APIError", status_code |-> status_code]

ConnectionError == [raised |-> "ConnectionError", status_code |-> 0]

\* what a call of the spreadsheet can answer
Answers == {Ok, APIError(429), APIError(403), APIError(503), ConnectionError}

Failure(error_code) == [success |-> FALSE, error_code |-> error_code, row_number |-> 0]

Success(row_number) == [success |-> TRUE, error_code |-> "", row_number |-> row_number]

\* f"GS-{status_code}"
GS(status_code) ==
    CASE status_code = 403 -> "GS-403"
      [] status_code = 423 -> "GS-423"
      [] status_code = 429 -> "GS-429"
      [] status_code = 503 -> "GS-503"
      [] OTHER -> "GS-500"

\* the two except clauses at the end of append_row
handled(answer) ==
    IF answer.raised = "APIError" THEN Failure(GS(answer.status_code)) ELSE Failure("GS-500")

max_retries == 3

\* the local variables of append_row at its entry
Frame(row_data, user_pref, token_expiry, now) ==
    [row_data |-> row_data, user_pref |-> user_pref, token_expiry |-> token_expiry,
     now |-> now, row |-> <<>>, attempt |-> 0, retry_delay |-> 1]

Called(name, answer) == [call |-> name, answer |-> answer, seconds |-> 0]

Slept(seconds) == [call |-> "sleep", answer |-> Ok, seconds |-> seconds]

\* append_row returns to its caller
AppendRowReturn(result) ==
    /\ pc' = "appended"
    /\ out' = result

AppendRowChecks ==
    /\ pc = "append_row"
    /\    IF ~check_token_validity(local.token_expiry, local.now).ok
          THEN AppendRowReturn(Failure("AUTH_EXPIRED"))
          ELSE IF ~has_column_mappings(local.user_pref)
          THEN AppendRowReturn(Failure("COLUMN_MAPPINGS_REQUIRED"))
          ELSE IF ~row_validate(local.row_data).ok
          THEN AppendRowReturn(Failure("INVALID_DATA"))
          ELSE pc' = "open" /\ out' = out
    /\ UNCHANGED <<op, inp, uploads, preferences, worksheet, local, calls, history>>

\* client.open_by_key, spreadsheet.worksheet, then build_mapped_row
OpenWorksheet ==
    /\ pc = "open"
    /\ \E opened \in Answers, tab \in Answers :
          LET built == build_mapped_row(local.row_data, get_column_mappings(local.user_pref))
          IN  IF opened # Ok
              THEN /\ calls' = Append(calls, Called("open_by_key", opened))
                   /\ AppendRowReturn(handled(opened))
                   /\ local' = local
              ELSE /\ calls' = calls \o <<Called("open_by_key", opened), Called("worksheet", tab)>>
                   /\ IF tab # Ok
                      THEN AppendRowReturn(handled(tab)) /\ local' = local
                      ELSE IF built.raised # "None"
                      THEN AppendRowReturn(Failure("GS-500")) /\ local' = local
                      ELSE /\ pc' = "append" /\ out' = out
                           /\ local' = [local EXCEPT !.row = built.row]
    /\ UNCHANGED <<op, inp, uploads, preferences, worksheet, history>>

AppendAttemptAnyError ==
    /\ pc = "append"
    /\ local.attempt < max_retries
    /\ \E answer \in Answers :
          IF answer = Ok
          THEN /\ worksheet' = Append(worksheet, local.row)
               /\ calls' = Append(calls, Called("append_row", answer))
               /\ pc' = "row_number" /\ out' = out /\ local' = local
          ELSE IF answer.raised = "APIError" /\ local.attempt < max_retries - 1
          THEN /\ calls' = calls \o <<Called("append_row", answer), Slept(local.retry_delay)>>
               /\ local' = [local EXCEPT !.attempt = @ + 1, !.retry_delay = @ * 2]
               /\ pc' = pc /\ out' = out /\ worksheet' = worksheet
          ELSE /\ calls' = Append(calls, Called("append_row", answer))
               /\ AppendRowReturn(handled(answer))
               /\ local' = local /\ worksheet' = worksheet
    /\ UNCHANGED <<op, inp, uploads, preferences, history>>

\* one pass of the retry loop
AppendAttempt ==
    /\ pc = "append"
    /\ local.attempt < max_retries
    /\ \E answer \in Answers :
          IF answer = Ok
          THEN /\ worksheet' = Append(worksheet, local.row)
               /\ calls' = Append(calls, Called("append_row", answer))
               /\ pc' = "row_number" /\ out' = out /\ local' = local
          ELSE IF answer = APIError(429) /\ local.attempt < max_retries - 1
          THEN /\ calls' = calls \o <<Called("append_row", answer), Slept(local.retry_delay)>>
               /\ local' = [local EXCEPT !.attempt = @ + 1, !.retry_delay = @ * 2]
               /\ pc' = pc /\ out' = out /\ worksheet' = worksheet
          ELSE /\ calls' = Append(calls, Called("append_row", answer))
               /\ AppendRowReturn(handled(answer))
               /\ local' = local /\ worksheet' = worksheet
    /\ UNCHANGED <<op, inp, uploads, preferences, history>>

\* row_number = len(worksheet.get_all_values()) + 1
RowNumber ==
    /\ pc = "row_number"
    /\ \E answer \in Answers :
          /\ calls' = Append(calls, Called("get_all_values", answer))
          /\ IF answer = Ok
             THEN AppendRowReturn(Success(Len(worksheet) + 1))
             ELSE AppendRowReturn(handled(answer))
    /\ UNCHANGED <<op, inp, uploads, preferences, worksheet, local, history>>

(***************************************************************************)
(* Calls of append_row                                                     *)
(***************************************************************************)
SPREADSHEET_ID_LENGTH == 44

SPREADSHEET_ID == [i \in 1..SPREADSHEET_ID_LENGTH |-> "x"]

Sheet1 == <<"S","h","e","e","t","1">>

Config_A_B_C == ColumnMappingConfiguration(<<"A">>, <<"B">>, <<"C">>)

Config_A_B_A == ColumnMappingConfiguration(<<"A">>, <<"B">>, <<"A">>)

Pref(column_mappings) ==
    UserPreference("uuid-1", "default_user", SPREADSHEET_ID, Sheet1, column_mappings)

\* column_mappings: absent, an empty dict, a stored configuration
AppendRowPrefs == {Pref(None), Pref(<<>>), Pref(to_dict(Config_A_B_C)), Pref(to_dict(Config_A_B_A))}

Amount_25 == [ip |-> <<"2","5">>, fp |-> <<>>]

AppendRowRows ==
    { GoogleSheetsRow(Date_2025_09_28, Coffee, Amount_25),
      GoogleSheetsRow(Date_2025_09_28, <<" ">>, Amount_25),
      GoogleSheetsRow(None, Coffee, Amount_25),
      GoogleSheetsRow(Date_2025_09_28, Coffee, [ip |-> <<"2","5">>, fp |-> <<>>, sign |-> "-"]) }

\* datetime.utcnow() at the call, and the expiry of the token, in seconds
UtcNow == {1000}

TokenExpiries == {999, 1000, 1001, 1000 + FIVE_MINUTES - 1, 1000 + FIVE_MINUTES, 1000 + FIVE_MINUTES + 1}

InitSheets ==
    /\ pc = "append_row"
    /\ op = "append_row"
    /\ inp \in {Frame(r, u, e, now) : r \in AppendRowRows, u \in AppendRowPrefs,
                                      e \in TokenExpiries, now \in UtcNow}
    /\ local = inp
    /\ out = NoResult
    /\ uploads = {}
    /\ preferences = NoFile
    /\ worksheet = <<>>
    /\ calls = <<>>
    /\ history = <<>>

NextSheets == AppendRowChecks \/ OpenWorksheet \/ AppendAttempt \/ RowNumber

SpecSheets == InitSheets /\ [][NextSheets]_vars

(***************************************************************************)
(* append_row: properties                                                  *)
(***************************************************************************)
Appends == SelectSeq(calls, LAMBDA c : c.call = "append_row")

Sleeps == SelectSeq(calls, LAMBDA c : c.call = "sleep")

RateLimited == [raised |-> "APIError", status_code |-> 429]

RowDataValid(row_data) ==
    /\ row_data.transaction_date # None
    /\ \E i \in 1..Len(row_data.items) : ~IsSpace(row_data.items[i])
    /\ row_data.total_amount # None
    /\ ~("sign" \in DOMAIN row_data.total_amount)

ExpectedRefusal(frame) ==
    IF frame.token_expiry <= frame.now + 5 * 60 THEN "AUTH_EXPIRED"
    ELSE IF frame.user_pref.column_mappings \in {None, <<>>} THEN "COLUMN_MAPPINGS_REQUIRED"
    ELSE IF ~RowDataValid(frame.row_data) THEN "INVALID_DATA"
    ELSE "None"

\* C24: append_row calls the spreadsheet only when the token expires more
\* than 5 minutes ahead, column mappings are configured and the row is
\* valid; otherwise it returns AUTH_EXPIRED, COLUMN_MAPPINGS_REQUIRED or
\* INVALID_DATA, whichever check fails first, and has made no call.
C24_ChecksBeforeAnyCall ==
    /\ (calls # <<>> \/ pc \notin {"append_row", "appended"}) => ExpectedRefusal(inp) = "None"
    /\ (pc = "appended" /\ ExpectedRefusal(inp) # "None") =>
          /\ out = Failure(ExpectedRefusal(inp))
          /\ calls = <<>>
          /\ worksheet = <<>>
    /\ (pc = "appended" /\ ExpectedRefusal(inp) = "None") => calls # <<>>

\* the token expires in exactly 5 minutes, and the row is invalid too
C24_Witness ==
    /\ pc = "appended"
    /\ inp.token_expiry = inp.now + 5 * 60
    /\ ~RowDataValid(inp.row_data)
    /\ out = Failure("AUTH_EXPIRED")
    /\ calls = <<>>

\* C25: when append_row returns failure, no row was appended to the
\* worksheet during the invocation.
C25_FailureAppendsNothing ==
    (pc = "appended" /\ ~out.success) => worksheet = <<>>

\* the append succeeded, the reading of the row number did not
C25_Witness ==
    /\ pc = "appended"
    /\ ~out.success
    /\ Len(worksheet) = 1
    /\ calls[Len(calls)].call = "get_all_values"
    /\ calls[Len(calls) - 1] = Called("append_row", Ok)

(***************************************************************************)
(* Receipt, TempStorageService and ExtractedData                           *)
(***************************************************************************)
MAX_FILE_SIZE == 5 * 1024 * 1024

ALLOWED_TYPES == {"image/jpeg", "image/png"}

\* re.sub(r'\.\.[\\/]', '', filename)
RECURSIVE remove_traversal(_)
remove_traversal(filename) ==
    IF Len(filename) = 0 THEN <<>>
    ELSE IF Len(filename) >= 3 /\ filename[1] = "." /\ filename[2] = "." /\ filename[3] \in {"/", "\\"}
    THEN remove_traversal(SubSeq(filename, 4, Len(filename)))
    ELSE <<filename[1]>> \o remove_traversal(Tail(filename))

\* Path(filename).name of a name without separators
basename(filename) == IF filename = <<".">> THEN <<>> ELSE filename

\* names here stay below the 255 characters at which the name is cut
sanitize_filename(filename) ==
    basename(replace(replace(remove_traversal(filename), "/", <<"_">>), "\\", <<"_">>))

\* Path(filename).suffix
suffix(filename) ==
    LET dots == {i \in 2..Len(filename) : filename[i] = "."}
    IN  IF dots = {} \/ filename[Len(filename)] = "." THEN <<>>
        ELSE SubSeq(filename, CHOOSE i \in dots : \A j \in dots : j <= i, Len(filename))

\* Receipt.create: a new id, status PENDING
Receipt(id, filename, file_size, file_type, file_path) ==
    [id |-> id, filename |-> sanitize_filename(filename), file_size |-> file_size,
     file_type |-> file_type, file_path |-> file_path, processing_status |-> "pending"]

receipt_validate(self) ==
    IF self.file_size > MAX_FILE_SIZE THEN Invalid("FILE_TOO_LARGE")
    ELSE IF self.file_type \notin ALLOWED_TYPES THEN Invalid("INVALID_FORMAT")
    ELSE IF self.filename = <<>> THEN Invalid("MISSING_FILE")
    ELSE Valid

mark_processing(self) == [self EXCEPT !.processing_status = "processing"]

mark_completed(self) == [self EXCEPT !.processing_status = "completed"]

mark_failed_forgotten(self) == self

mark_failed(self) == [self EXCEPT !.processing_status = "failed"]

\* the name save_file gives a file: f"{file_uuid}_{timestamp}{extension}"
StoredName(file_uuid, timestamp, extension) ==
    [file_uuid |-> file_uuid, timestamp |-> timestamp, extension |-> extension]

\* upload_dir.glob(f"{receipt_id}*"): a uuid4 string is 36 characters long,
\* so a stored name starts with one exactly when it is the file's own
glob(files, receipt_id) == {f \in files : f.file_uuid = receipt_id}

IsZero(amount) == StripLeadingZeros(amount.ip) = <<>> /\ StripTrailingZeros(amount.fp) = <<>>

\* ExtractedData.to_dict: "x if self.x else None" tests the truth of the
\* value; a date is always true, a Decimal is false when it is zero
extracted_data_to_dict(self) ==
    [transaction_date |-> IF self.transaction_date # None
                          THEN strftime_Ymd(self.transaction_date) ELSE None,
     transaction_date_confidence |-> self.transaction_date_confidence,
     items |-> self.items,
     items_confidence |-> self.items_confidence,
     total_amount |-> IF self.total_amount # None /\ ~IsZero(self.total_amount)
                      THEN str_float(self.total_amount) ELSE None,
     total_amount_confidence |-> self.total_amount_confidence]

(***************************************************************************)
(* POST /api/v1/upload, then POST /api/v1/save by the same client          *)
(***************************************************************************)
Response(status_code, body) == [status_code |-> status_code, body |-> body]

Error(error_code) == [error_code |-> error_code]

\* uuid.uuid4()
Uuids == {"uuid-1", "uuid-2"}

\* lines 33-60: read the file, create the receipt, validate it
UploadValidate ==
    /\ pc = "call" /\ op = "upload_receipt"
    /\ \E id \in Uuids :
          LET receipt == Receipt(id, IF inp.filename = <<>> THEN <<"u","n","k","n","o","w","n",".","j","p","g">>
                                     ELSE inp.filename,
                                 inp.file_size,
                                 IF inp.content_type = "" THEN "application/octet-stream"
                                 ELSE inp.content_type,
                                 <<>>)
          IN  /\ local' = [receipt |-> receipt]
              /\ IF ~receipt_validate(receipt).ok
                 THEN pc' = "return" /\ out' = Response(400, Error(receipt_validate(receipt).error))
                 ELSE pc' = "save_file" /\ out' = out
    /\ UNCHANGED <<op, inp, uploads, preferences, worksheet, calls, history>>

\* lines 62-68 and 99-109: save_file, mark_processing; the disk may refuse
UploadSaveFile ==
    /\ pc = "save_file"
    /\ \/ \E file_uuid \in Uuids, timestamp \in UtcNow :
             LET file_path == StoredName(file_uuid, timestamp, suffix(local.receipt.filename))
             IN  /\ uploads' = uploads \cup {file_path}
                 /\ calls' = Append(calls, Called("save_file", file_path))
                 /\ local' = [receipt |-> mark_processing([local.receipt EXCEPT !.file_path = file_path])]
                 /\ pc' = "process_image" /\ out' = out
       \/ /\ local' = [receipt |-> mark_failed(local.receipt)]
          /\ pc' = "return" /\ out' = Response(500, Error("OCR_FAILED"))
          /\ UNCHANGED <<uploads, calls>>
    /\ UNCHANGED <<op, inp, preferences, worksheet, history>>

Line_Total_0_00 == <<"T","o","t","a","l"," ","0",".","0","0">>

\* what the OCR engine reads from an image
OcrTexts ==
    { JoinLines(<<Chunk_2025_09_28, Line_Coffee, Line_Total_15_95>>),
      Line_Total_0_00, Line_Thank_you, Line_Barcode }

\* lines 70-109: OCR, parse_receipt_data, ExtractedData, mark_completed
UploadProcess ==
    /\ pc = "process_image"
    /\ \/ \E raw_ocr_text \in OcrTexts, library \in LibraryAnswers, today \in Clock :
             \E parsed_data \in {parse_receipt_data(raw_ocr_text, library, today)} :
                IF parsed_data = OverflowError
                THEN /\ local' = [receipt |-> mark_failed(local.receipt)]
                     /\ out' = Response(500, Error("OCR_FAILED"))
                ELSE /\ local' = [receipt |-> mark_completed(local.receipt)]
                     /\ out' = Response(200, [receipt_id |-> local.receipt.id,
                                              status |-> "completed",
                                              extracted_data |-> extracted_data_to_dict(parsed_data)])
       \/ /\ local' = [receipt |-> mark_failed(local.receipt)]
          /\ out' = Response(500, Error("OCR_FAILED"))
    /\ pc' = "return"
    /\ UNCHANGED <<op, inp, uploads, preferences, worksheet, calls, history>>

Session(oauth_token, token_expiry, user_id) ==
    [oauth_token |-> oauth_token, token_expiry |-> token_expiry, user_id |-> user_id]

SaveRequest(receipt_id, transaction_date, items, total_amount, session) ==
    [receipt_id |-> receipt_id, transaction_date |-> transaction_date, items |-> items,
     total_amount |-> total_amount, session |-> session]

\* Decimal(str(data.total_amount)), and the test amount < 0
amount_of(total_amount) ==
    IF IsNegative(total_amount) THEN ValueError
    ELSE Decimal(str_float(total_amount))

\* datetime.fromisoformat(token_expiry_str) if token_expiry_str else utcnow()
token_expiry_of(session, now) == IF session.token_expiry = None THEN now ELSE session.token_expiry.at

\* lines 44-128: the request is refused, or append_row is called
SaveReceiptChecks ==
    /\ pc = "call" /\ op = "save_receipt"
    /\ \E library \in LibraryAnswers, today \in Clock, now \in UtcNow :
          LET parsed_date == dateutil_parse(inp.transaction_date, library, today)
              amount == amount_of(inp.total_amount)
              user_pref == load_by_session_id(preferences, inp.session.user_id)
              refuse(status_code, error_code) ==
                  /\ pc' = "return" /\ out' = Response(status_code, Error(error_code))
                  /\ local' = local
          IN  IF inp.receipt_id = "" \/ inp.transaction_date = <<>> \/ inp.items = <<>>
              THEN refuse(400, "MISSING_REQUIRED_FIELDS")
              ELSE IF parsed_date \in {ParserError, ValueError} THEN refuse(400, "INVALID_DATE")
              ELSE IF parsed_date = OverflowError THEN refuse(500, "Internal Server Error")
              ELSE IF amount = ValueError THEN refuse(400, "INVALID_AMOUNT")
              ELSE IF inp.session.oauth_token = "" THEN refuse(401, "NOT_AUTHENTICATED")
              ELSE IF user_pref = None THEN refuse(401, "NOT_AUTHENTICATED")
              ELSE IF ~has_column_mappings(user_pref) THEN refuse(400, "COLUMN_MAPPINGS_REQUIRED")
              ELSE /\ local' = Frame(GoogleSheetsRow(parsed_date, inp.items, amount), user_pref,
                                     token_expiry_of(inp.session, now), now)
                   /\ pc' = "append_row" /\ out' = out
    /\ UNCHANGED <<op, inp, uploads, preferences, worksheet, calls, history>>

status_code_of(error_code) ==
    CASE error_code = "AUTH_EXPIRED" -> 401
      [] error_code = "GS-403" -> 403
      [] error_code = "GS-423" -> 423
      [] error_code = "GS-429" -> 429
      [] OTHER -> 500

\* lines 138-167: the error of append_row is raised, or the files whose name
\* starts with the receipt_id are deleted and the response returned
SaveReceiptFinish ==
    /\ pc = "appended" /\ op = "save_receipt"
    /\ pc' = "return"
    /\ IF ~out.success
       THEN /\ out' = Response(status_code_of(out.error_code), Error(out.error_code))
            /\ uploads' = uploads
       ELSE /\ out' = Response(200, out)
            /\ uploads' = uploads \ glob(uploads, inp.receipt_id)
    /\ UNCHANGED <<op, inp, preferences, worksheet, local, calls, history>>

(***************************************************************************)
(* An upload, and the save of the uploaded receipt                         *)
(***************************************************************************)
Receipt_jpg == <<"r","e","c","e","i","p","t",".","j","p","g">>

UploadRequests ==
    [filename : {Receipt_jpg, <<".",".","/">>},
     file_size : {MAX_FILE_SIZE, MAX_FILE_SIZE + 1},
     content_type : {"image/jpeg", "application/pdf"}]

\* the session of the client: no token, a token without expiry, a token
\* that expires in an hour
Sessions ==
    { Session("", None, "default_user"),
      Session("token", None, "default_user"),
      Session("token", [at |-> 1000 + 3600], "default_user") }

\* the preferences file: absent, a preference without column mappings, a
\* preference with column mappings
PreferenceFiles ==
    { NoFile,
      File([s \in {"default_user"} |-> pref_data(Pref(None))]),
      File([s \in {"default_user"} |-> pref_data(Pref(to_dict(Config_A_B_C)))]) }

InitReceipt ==
    /\ pc = "call"
    /\ op = "upload_receipt"
    /\ inp \in UploadRequests
    /\ out = NoResult
    /\ local = NoResult
    /\ uploads = {}
    /\ preferences \in PreferenceFiles
    /\ worksheet = <<>>
    /\ calls = <<>>
    /\ history = <<>>

\* the client saves the receipt it uploaded, under the receipt_id of the
\* upload's response
PostSave ==
    /\ pc = "return" /\ op = "upload_receipt"
    /\ out.status_code = 200
    /\ \E transaction_date \in {Chunk_22_Sep_2025, Line_Thank_you, <<>>},
          total_amount \in {Amount_25, [ip |-> <<"2","5">>, fp |-> <<>>, sign |-> "-"]},
          session \in Sessions :
          inp' = SaveRequest(out.body.receipt_id, transaction_date, Coffee, total_amount, session)
    /\ op' = "save_receipt"
    /\ pc' = "call"
    /\ out' = NoResult
    /\ UNCHANGED <<uploads, preferences, worksheet, local, calls, history>>

NextReceipt ==
    \/ UploadValidate \/ UploadSaveFile \/ UploadProcess
    \/ PostSave
    \/ SaveReceiptChecks \/ AppendRowChecks \/ OpenWorksheet \/ AppendAttempt \/ RowNumber
    \/ SaveReceiptFinish

SpecReceipt == InitReceipt /\ [][NextReceipt]_vars

(***************************************************************************)
(* Upload and save: properties                                             *)
(***************************************************************************)
\* the files the upload stored, from the log
StoredByUpload == {calls[i].answer : i \in {j \in 1..Len(calls) : calls[j].call = "save_file"}}

SavedSuccessfully == op = "save_receipt" /\ pc = "return" /\ out.status_code = 200

\* C21: after an upload and a successful save under the receipt_id the
\* upload returned, the file the upload stored is no longer in the upload
\* directory.
C21_FileDeletedAfterSave ==
    SavedSuccessfully => \A f \in StoredByUpload : f \notin uploads

\* the save succeeded and the receipt's file is still there
C21_Witness ==
    /\ SavedSuccessfully
    /\ out.body.success
    /\ Len(worksheet) = 1
    /\ \E f \in StoredByUpload : f \in uploads /\ f.file_uuid # inp.receipt_id

Uploaded(status_code) == op = "upload_receipt" /\ pc = "return" /\ out.status_code = status_code

\* C26: in the extracted_data of an upload response each of the three
\* values is null exactly when its confidence is 0.0.
C26_NullExactlyAtZeroConfidence ==
    Uploaded(200) =>
        \A data \in {out.body.extracted_data} :
            /\ data.transaction_date = None <=> data.transaction_date_confidence = 0
            /\ data.items = None <=> data.items_confidence = 0
            /\ data.total_amount = None <=> data.total_amount_confidence = 0

\* "Total 0.00": the amount is found next to Total, and is null in the response
C26_Witness ==
    /\ Uploaded(200)
    /\ out.body.extracted_data.total_amount = None
    /\ out.body.extracted_data.total_amount_confidence = 95
    /\ extract_total_amount(Line_Total_0_00) = [value |-> [ip |-> <<"0">>, fp |-> <<"0","0">>], confidence |-> 95]

HasReceipt == op = "upload_receipt" /\ pc # "call"

StatusMoves ==
    { <<"pending", "processing">>, <<"processing", "completed">>,
      <<"pending", "failed">>, <<"processing", "failed">> }

\* C30: in upload_receipt the status moves only PENDING -> PROCESSING ->
\* COMPLETED, or to FAILED; a receipt that fails validation stays PENDING
\* and no file is written for it; COMPLETED is reached only from PROCESSING
\* and never left; 200 is returned only in COMPLETED, 500 OCR_FAILED only in
\* FAILED.
C30_StatusMoves ==
    /\ [](HasReceipt =>
            /\ pc = "save_file" => local.receipt.processing_status = "pending"
            /\ Uploaded(400) => local.receipt.processing_status = "pending" /\ uploads = {}
            /\ Uploaded(200) => local.receipt.processing_status = "completed"
            /\ Uploaded(500) => local.receipt.processing_status = "failed"
                                    /\ out.body = Error("OCR_FAILED"))
    /\ [][(HasReceipt /\ op' = "upload_receipt") =>
            \/ local'.receipt.processing_status = local.receipt.processing_status
            \/ <<local.receipt.processing_status, local'.receipt.processing_status>> \in StatusMoves]_vars

C30_Witness ==
    /\ Uploaded(200)
    /\ local.receipt.processing_status = "completed"
    /\ local.receipt.file_path \in uploads

(***************************************************************************)
(* Duplicate references and shared cells                                   *)
(***************************************************************************)
\* the position of row that row[idx] = value writes on a list of that length
cell_of(idx, length) == IF idx >= 0 THEN idx ELSE length + idx

MappedRefs(self) == <<self.date_column, self.description_column, self.price_column>>

MappedIndexes(self) == [i \in 1..3 |-> get_column_index(MappedRefs(self)[i])]

SharedCell(self, length) ==
    \E i, j \in 1..3 :
        /\ i < j
        /\ cell_of(MappedIndexes(self)[i], length) = cell_of(MappedIndexes(self)[j], length)

\* C27: for a configuration accepted by validate(), two of its references
\* are the same string exactly when they have the same column index, and
\* has_duplicates() is true exactly when build_mapped_row writes two fields
\* into one cell of the row.
C27_DuplicatesAreSharedCells ==
    (Returned("build_mapped_row") /\ config_validate(inp.mappings).ok) =>
        /\ \A i, j \in 1..3 :
              (MappedRefs(inp.mappings)[i] = MappedRefs(inp.mappings)[j])
                  <=> (MappedIndexes(inp.mappings)[i] = MappedIndexes(inp.mappings)[j])
        /\ out.raised = "None" =>
              (has_duplicates(inp.mappings) <=> SharedCell(inp.mappings, Len(out.row)))

\* A, B, A: a duplicate, and date and price joined in cell 0
C27_Witness ==
    /\ Returned("build_mapped_row")
    /\ inp.mappings = Config_A_B_A
    /\ has_duplicates(inp.mappings)
    /\ out.raised = "None"
    /\ SharedCell(inp.mappings, Len(out.row))

(***************************************************************************)
(* POST /api/v1/auth/setup, GET and POST /api/v1/column-config.  A handler *)
(* has no await between its first and its last line, so each request is    *)
(* served in one step.                                                     *)
(***************************************************************************)
\* a request of the column-config endpoints: the session_id header ("" when
\* absent) and the session of the cookie
Client(session_id, session) == [session_id |-> session_id, session |-> session]

\* the header wins over the cookie
authenticate(request) ==
    IF request.session_id # ""
    THEN [oauth_token |-> "header-auth", user_session_id |-> request.session_id]
    ELSE [oauth_token |-> request.session.oauth_token, user_session_id |-> request.session.user_id]

Served(response, file) == [response |-> response, file |-> file]

\* auth.save_preferences
save_preferences(session, data, file, id) ==
    IF session.oauth_token = "" THEN Served(Response(401, Error("NOT_AUTHENTICATED")), file)
    ELSE IF Len(data.spreadsheet_id) # 44
    THEN Served(Response(400, Error("INVALID_SPREADSHEET_ID")), file)
    ELSE IF IsBlank(data.sheet_tab_name)
    THEN Served(Response(400, Error("INVALID_SHEET_NAME")), file)
    ELSE Served(Response(200, [success |-> TRUE]),
                save(create(id, session.user_id, data.spreadsheet_id, data.sheet_tab_name), file))

\* column_config.get_column_mappings
get_column_config(request, file) ==
    LET user_pref == load_by_session_id(file, authenticate(request).user_session_id)
    IN  IF authenticate(request).oauth_token = "" THEN Response(401, Error("AUTH_REQUIRED"))
        ELSE IF user_pref = None THEN Response(401, Error("AUTH_REQUIRED"))
        ELSE IF ~has_column_mappings(user_pref)
        THEN Response(404, Error("COLUMN_MAPPINGS_NOT_CONFIGURED"))
        ELSE Response(200, get_column_mappings(user_pref))

\* column_config.save_column_mappings
save_column_mappings(request, data, file) ==
    LET user_pref == load_by_session_id(file, authenticate(request).user_session_id)
        config == ColumnMappingConfiguration(data.date_column, data.description_column,
                                             data.price_column)
        missing(field) ==
            Served(Response(400, [error_code |-> "MISSING_REQUIRED_FIELD", field |-> field]), file)
    IN  IF authenticate(request).oauth_token = ""
        THEN Served(Response(401, Error("AUTH_REQUIRED")), file)
        ELSE IF user_pref = None THEN Served(Response(401, Error("AUTH_REQUIRED")), file)
        ELSE IF IsBlank(data.date_column) THEN missing("date_column")
        ELSE IF IsBlank(data.description_column) THEN missing("description_column")
        ELSE IF IsBlank(data.price_column) THEN missing("price_column")
        ELSE IF ~config_validate(config).ok
        THEN Served(Response(400, [error_code |-> config_validate(config).error,
                                   field |-> config_validate(config).field]), file)
        ELSE Served(Response(200, [success |-> TRUE, mappings |-> config]),
                    save(set_column_mappings(user_pref, config), file))

(***************************************************************************)
(* Requests of two sessions, one after the other                           *)
(***************************************************************************)
SessionIds == {"default_user", "session-2"}

\* the browser with and without a token, and an API client with the header
Clients ==
    { Client("", Session("token", [at |-> 1000 + 3600], "default_user")),
      Client("", Session("", None, "default_user")),
      Client("session-2", Session("", None, "default_user")) }

SetupRequests ==
    { [spreadsheet_id |-> SPREADSHEET_ID, sheet_tab_name |-> Sheet1],
      [spreadsheet_id |-> Tail(SPREADSHEET_ID), sheet_tab_name |-> Sheet1],
      [spreadsheet_id |-> SPREADSHEET_ID, sheet_tab_name |-> <<" ">>] }

ColumnMappingsRequests ==
    { Config_A_B_C, Config_A_B_A,
      ColumnMappingConfiguration(<<"a">>, <<"B">>, <<"C">>),
      ColumnMappingConfiguration(<<"A">>, <<>>, <<"C">>) }

NothingAccepted == [accepted |-> None, then_setup |-> FALSE]

InitColumnConfig ==
    /\ pc = "serve"
    /\ op = "none"
    /\ inp = NoResult
    /\ out = NoResult
    /\ local = NoResult
    /\ uploads = {}
    /\ worksheet = <<>>
    /\ calls = <<>>
    /\ preferences \in
          { NoFile,
            File([s \in {"session-2"} |->
                    pref_data(UserPreference("uuid-2", s, SPREADSHEET_ID, Sheet1, None))]) }
    /\ history = [s \in SessionIds |-> NothingAccepted]

Serve(name, request, response) ==
    /\ pc' = "serve"
    /\ op' = name
    /\ inp' = request
    /\ out' = response
    /\ UNCHANGED <<uploads, worksheet, local, calls>>

SavePreferences ==
    /\ pc = "serve"
    /\ \E client \in Clients, data \in SetupRequests, id \in Uuids :
          \E served \in {save_preferences(client.session, data, preferences, id)} :
             /\ Serve("save_preferences", [client |-> client, data |-> data], served.response)
             /\ preferences' = served.file
             /\ history' = IF served.response.status_code = 200
                                /\ history[client.session.user_id].accepted # None
                           THEN [history EXCEPT ![client.session.user_id].then_setup = TRUE]
                           ELSE history

GetColumnMappings ==
    /\ pc = "serve"
    /\ \E client \in Clients :
          Serve("get_column_mappings", [client |-> client], get_column_config(client, preferences))
    /\ UNCHANGED <<preferences, history>>

SaveColumnMappings ==
    /\ pc = "serve"
    /\ \E client \in Clients, data \in ColumnMappingsRequests :
          \E served \in {save_column_mappings(client, data, preferences)} :
             /\ Serve("save_column_mappings", [client |-> client, data |-> data], served.response)
             /\ preferences' = served.file
             /\ history' = IF served.response.status_code = 200
                           THEN [history EXCEPT ![authenticate(client).user_session_id] =
                                    [accepted |-> data, then_setup |-> FALSE]]
                           ELSE history

\* the browser saves a receipt
PostSaveReceipt ==
    /\ pc = "serve"
    /\ \E client \in Clients :
          /\ client.session_id = ""
          /\ inp' = SaveRequest("uuid-1", Chunk_22_Sep_2025, Coffee, Amount_25, client.session)
    /\ op' = "save_receipt"
    /\ pc' = "call"
    /\ out' = NoResult
    /\ UNCHANGED <<uploads, preferences, worksheet, local, calls, history>>

NextColumnConfig ==
    SavePreferences \/ GetColumnMappings \/ SaveColumnMappings \/ PostSaveReceipt \/ SaveReceiptChecks

SpecColumnConfig == InitColumnConfig /\ [][NextColumnConfig]_vars

(***************************************************************************)
(* Column configuration over requests: properties                          *)
(***************************************************************************)
Answered(name, status_code) == pc = "serve" /\ op = name /\ out.status_code = status_code

\* C22: a GET of an authenticated session returns the three references of the session's
\* most recent accepted POST, duplicates included, when only column-config
\* requests came since; a POST answered 401 or 400 leaves the stored
\* preferences as they were.
C22_LastAcceptedMappings ==
    /\ [](\A client \in Clients :
            \A s \in {authenticate(client).user_session_id} :
                (/\ authenticate(client).oauth_token # ""
                 /\ history[s].accepted # None
                 /\ ~history[s].then_setup) =>
                    /\ get_column_config(client, preferences) = Response(200, history[s].accepted)
                    /\ (pc = "serve" /\ op = "get_column_mappings" /\ inp.client = client) =>
                           out = Response(200, history[s].accepted))
    /\ [][(pc = "serve" /\ op' = "save_column_mappings" /\ out'.status_code \in {400, 401}) =>
              preferences' = preferences]_vars

\* A, B, A was accepted after A, B, C, a bad POST followed, and the GET
\* returns A, B, A
C22_Witness ==
    /\ Answered("get_column_mappings", 200)
    /\ out.body = Config_A_B_A
    /\ history["default_user"] = [accepted |-> Config_A_B_A, then_setup |-> FALSE]
    /\ inp.client.session_id = ""

\* C28: once a session's column mappings were accepted, its stored
\* preference holds mappings, also after a later setup of the session, and
\* its save is not refused with COLUMN_MAPPINGS_REQUIRED.
C28_MappingsSurviveSetup ==
    history # <<>> =>
        \A s \in SessionIds :
            history[s].accepted # None =>
                /\ load_by_session_id(preferences, s) # None
                /\ has_column_mappings(load_by_session_id(preferences, s))
                /\ (op = "save_receipt" /\ pc = "return" /\ inp.session.user_id = s) =>
                       out.body # Error("COLUMN_MAPPINGS_REQUIRED")

\* setup, column-config, setup, save
C28_Witness ==
    /\ op = "save_receipt" /\ pc = "return"
    /\ history["default_user"] = [accepted |-> Config_A_B_C, then_setup |-> TRUE]
    /\ out = Response(400, Error("COLUMN_MAPPINGS_REQUIRED"))

(***************************************************************************)
(* UserPreference.save and UserPreference.delete of two sessions served by *)
(* two workers on the one preferences file.  Neither method takes a lock:  *)
(* the file is read in one step and written in a later one, and the other  *)
(* worker may run in between.                                              *)
(***************************************************************************)
Idle == [pc |-> "idle", self |-> None, preferences |-> <<>>]

Loaded(name, self, loaded) == [pc |-> name, self |-> self, preferences |-> loaded]

\* the entry of a session in the file, None when there is none
Entry(file, session_id) ==
    IF file.exists /\ session_id \in DOMAIN file.content
    THEN file.content[session_id]
    ELSE None

WorkerPrefs(session_id) ==
    { UserPreference("uuid-1", session_id, SPREADSHEET_ID, Sheet1, column_mappings) :
          column_mappings \in {None, to_dict(Config_A_B_C), to_dict(Config_A_B_A)} }

PreferenceFilesOfTwo ==
    { NoFile,
      File([s \in SessionIds |-> pref_data(UserPreference("uuid-1", s, SPREADSHEET_ID, Sheet1, None))]) }

InitWorkers ==
    /\ pc = "workers"
    /\ op = "none"
    /\ inp = NoResult
    /\ out = NoResult
    /\ uploads = {}
    /\ worksheet = <<>>
    /\ calls = <<>>
    /\ preferences \in PreferenceFilesOfTwo
    /\ local = [s \in SessionIds |-> Idle]
    /\ history = [s \in SessionIds |-> Entry(preferences, s)]

Worker == UNCHANGED <<pc, op, inp, out, uploads, worksheet, calls>>

\* save(): preferences = json.load(f), when the file exists
SaveLoad(s) ==
    /\ local[s].pc = "idle"
    /\ \E self \in WorkerPrefs(s) :
          local' = [local EXCEPT ![s] = Loaded("save", self, load(preferences))]
    /\ UNCHANGED <<preferences, history>>
    /\ Worker

\* save(): preferences[self.user_session_id] = pref_data; json.dump(preferences, f)
SaveWrite(s) ==
    /\ local[s].pc = "save"
    /\ preferences' = saved(local[s].self, local[s].preferences)
    /\ history' = [history EXCEPT ![s] = pref_data(local[s].self)]
    /\ local' = [local EXCEPT ![s] = Idle]
    /\ Worker

\* delete(): return when there is no file, else preferences = json.load(f)
DeleteLoad(s) ==
    /\ local[s].pc = "idle"
    /\ \E self \in WorkerPrefs(s) :
          IF ~preferences.exists
          THEN /\ local' = local
               /\ history' = [history EXCEPT ![s] = None]
          ELSE /\ local' = [local EXCEPT ![s] = Loaded("delete", self, load(preferences))]
               /\ history' = history
    /\ UNCHANGED preferences
    /\ Worker

\* delete(): del preferences[self.user_session_id]; json.dump or unlink
DeleteWrite(s) ==
    /\ local[s].pc = "delete"
    /\ preferences' = deleted(local[s].self, local[s].preferences)
    /\ history' = [history EXCEPT ![s] = None]
    /\ local' = [local EXCEPT ![s] = Idle]
    /\ Worker

NextWorkers ==
    \E s \in SessionIds : SaveLoad(s) \/ SaveWrite(s) \/ DeleteLoad(s) \/ DeleteWrite(s)

SpecWorkers == InitWorkers /\ [][NextWorkers]_vars

(***************************************************************************)
(* Concurrent saves and deletes: properties                                *)
(***************************************************************************)
AllIdle == \A s \in SessionIds : local[s] = Idle

\* C29: when the saves and deletes of the sessions have finished, the entry
\* of every session in the preferences file is the one the session wrote
\* last, or absent when the session deleted it last.
C29_EverySessionKeepsItsEntry ==
    AllIdle => \A s \in SessionIds : Entry(preferences, s) = history[s]

\* default_user saved its mappings last and session-2 has no entry, and the
\* file holds exactly that
C29_Witness ==
    /\ AllIdle
    /\ history["default_user"] = pref_data(UserPreference("uuid-1", "default_user", SPREADSHEET_ID,
                                                          Sheet1, to_dict(Config_A_B_C)))
    /\ history["session-2"] = None
    /\ Entry(preferences, "default_user") = history["default_user"]
    /\ Entry(preferences, "session-2") = None
    /\ preferences.exists

====
